---- MODULE Spec2Model ----
(***************************************************************************)
(* A model of the indexing pipeline of aria: the call resolver             *)
(* (src/src/resolver.rs), the topology engine (src/src/topo.rs) and the    *)
(* summarization scheduler (src/src/commands/index.rs,                     *)
(* src/src/summarizer.rs).                                                 *)
(*                                                                         *)
(* Qualified names of the topology engine and of the scheduler are the    *)
(* naturals 1..NumNames: the natural order stands for the byte order of   *)
(* the strings, which is all that the sorted traversals of topo.rs read.  *)
(* The iteration order of a HashMap or HashSet is never fixed by the code: *)
(* every operator that iterates one takes the order as the parameter ord, *)
(* a permutation of the names, and the actions choose it freely.          *)
(***************************************************************************)
EXTENDS Naturals, Integers, Sequences, FiniteSets, TLC

\* ------------------------------------------------------------------ bounds

\* Number of qualified names given to the topology engine.
NumNames == 3

\* Largest number of call edges of an input call map.
MaxEdges == 3

Names == 1..NumNames

\* Largest number of functions of one file of the index given to the resolver.
MaxFuncs == 2

\* Largest number of call sites of that index.
MaxCallSites == 2

\* The index run: the largest configured batch_size and parallel, and the most
\* functions of the old index that carry a summary.
MaxBatchSize == 2
MaxParallel == 2
MaxPrior == 2

\* parse_batch_response on its own: the most lines of a response and the most
\* pieces of a line.
MaxLines == 2
MaxLineLen == 3

\* The embedding store: EMBEDDING_DIM (768 in embeddings.rs) scaled down, the
\* number of qualified names, and the most operations of one behaviour.
EMBEDDING_DIM == 2
MaxEntries == 2
MaxOps == 6

\* aria query: the largest --depth asked for (0 stands for unlimited).
MaxDepth == 2

\* The topology engine on its own: the two inputs of assign_levels, the
\* components it got from find_sccs, its result, the result of group_by_level on
\* it, and the position of the caller (start, levels, done).
VARIABLES functions, calls, sccs, levels, groups, topo_pc

topo_vars == << functions, calls, sccs, levels, groups, topo_pc >>

\* The resolver: the files of the index, the two lookup maps of the Resolver and
\* the position of the caller (parsed, built, resolved).
VARIABLES index_files, symbol_table, qualified_to_file, res_pc

res_vars == << index_files, symbol_table, qualified_to_file, res_pc >>

\* The index run after resolution (commands/index.rs, run and run_summarization):
\*   config        batch_size, parallel and features.summaries of the config
\*   old_index     None, or the functions of the index loaded from disk, each
\*                 an [ast_hash, summary]
\*   stored_index  the functions of .aria/index.json as it is on disk, and
\*   index_writes  the number of times the run has written it
\*   ast_hash      the content hash of every function of the new index
\*   index_calls   the resolved call targets of every function of the new index
\*   index_summary Function.summary of every function of the new index
\*   run_pc        the position of the orchestrator thread
\*   summaries     the map of the summaries available as callee context
\*   level         the level being processed (1 is level 0 of the code)
\*   requests, request_qnames   the requests composed for the level
\*   batches, spawned, handles  summarize_batch: the batches, how many have a
\*                 thread, the join handles not yet joined
\*   threads       the worker threads that have not been joined
\*   channel       the results sent and not yet received
\*   results, rpos the results summarize_batch returned, the next one to write
\*   requested     the number of SummaryRequests made for every function
\*   prompted, outcome, warned  what happened so far: the functions put in a
\*                 request, how the LLM call of each ended, the functions whose
\*                 failure was reported
VARIABLES config, old_index, stored_index, index_writes, requested,
          ast_hash, index_calls, index_summary, run_pc,
          summaries, level, requests, request_qnames, batches, spawned, handles,
          threads, channel, results, rpos, prompted, outcome, warned

run_vars == << config, old_index, stored_index, index_writes, requested,
               ast_hash,
               index_calls, index_summary, run_pc,
               summaries, level, requests, request_qnames, batches, spawned,
               handles, threads, channel, results, rpos, prompted, outcome, warned >>

\* parse_batch_response on its own (summarizer.rs):
\*   pb_batch     the batch of requests
\*   pb_response  the response text, a sequence of lines
\*   pb_results   the results of the calls made so far, one entry per call
VARIABLES pb_batch, pb_response, pb_results

parse_vars == << pb_batch, pb_response, pb_results >>

\* The embedding store (embeddings.rs):
\*   emb_store    EmbeddingStore.embeddings of the running process
\*   idx_file     embeddings.idx: whether it exists, and its lines
\*   bin_file     embeddings.bin: whether it exists, and its bytes
\*   emb_pc       where the process is: stopped, ready, or inside save
\*   emb_result   what the last finished operation returned
\*   emb_before   the store and the files when the last save or prune began
\*   emb_ops      the number of operations started
VARIABLES emb_store, idx_file, bin_file, emb_pc, emb_result, emb_before, emb_ops

store_vars == << emb_store, idx_file, bin_file, emb_pc, emb_result, emb_before,
                 emb_ops >>

\* The commands that load the index document (commands/*.rs):
\*   index_json   .aria/index.json: whether it exists, the fields of the Index
\*                struct it holds, its version and its functions
\*   cmd          the command that ran: index, query, search, embed or diff
\*   cmd_index    the Index the command holds after the load
\*   cmd_exit     "FAILURE" when the load ended the command, "continues" when
\*                the command goes on after the load
VARIABLES index_json, cmd, cmd_index, cmd_exit

load_vars == << index_json, cmd, cmd_index, cmd_exit >>

\* aria query trace and aria query usages (commands/query.rs):
\*   q_functions  the qualified names of func_map
\*   q_calls      the targets of the call sites of every function, in order
\*   q_called_by  Function.called_by of every function
\*   q_cmd, q_name, q_depth   the command line: trace, trace with --callers or
\*                usages, the function asked for and --depth
\*   q_pc         start, chain (the loop of build_caller_chain), print (the
\*                recursion of print_trace_level or print_usages_callers), done
\*   q_chain, q_current, q_chain_visited   chain, current and visited of
\*                build_caller_chain
\*   q_stack      the frames of the recursion, the innermost last: the function
\*                expanded, current_depth and the next element of the for loop
\*   q_visited    visited of the recursion
\*   q_output     the lines printed, each a kind, a name and a depth
VARIABLES q_functions, q_calls, q_called_by, q_cmd, q_name, q_depth, q_pc,
          q_chain, q_current, q_chain_visited, q_stack, q_visited, q_output

query_vars == << q_functions, q_calls, q_called_by, q_cmd, q_name, q_depth, q_pc,
                 q_chain, q_current, q_chain_visited, q_stack, q_visited,
                 q_output >>

cmd_vars == << load_vars, query_vars >>

\* The variables of the components specified on their own.
unit_vars == << parse_vars, store_vars, cmd_vars >>

vars == << topo_vars, res_vars, run_vars, unit_vars >>

\* ----------------------------------------------------------------- helpers

RECURSIVE Insert(_, _)
\* Vec::sort, one insertion: x placed before the first greater element.
Insert(x, s) ==
    IF s = << >> THEN << x >>
    ELSE IF x <= Head(s) THEN << x >> \o s
    ELSE << Head(s) >> \o Insert(x, Tail(s))

RECURSIVE Sort(_)
\* Vec::sort on a vector of names (duplicates are kept).
Sort(s) == IF s = << >> THEN << >> ELSE Insert(Head(s), Sort(Tail(s)))

Range(s) == { s[i] : i \in 1..Len(s) }

\* A sorted collection (BTreeSet, or a collected and sorted Vec) of the set S.
SortedSeq(S) == SelectSeq([i \in 1..NumNames |-> i], LAMBDA x : x \in S)

\* Every iteration order of a hash container over the names.
HashOrders == { o \in [1..NumNames -> Names] :
                  \A i, j \in 1..NumNames : i # j => o[i] # o[j] }

IdentityOrder == [i \in 1..NumNames |-> i]

MaxOf(S) == CHOOSE m \in S : \A x \in S : x <= m

\* -------------------------------------------------------- topo.rs: find_sccs

RECURSIVE dfs_first(_, _, _, _)
RECURSIVE dfs_first_loop(_, _, _, _, _)

\* st = [visited, finish_order]; the loop over the sorted callees of a node.
dfs_first_loop(sorted_callees, i, cs, fs, st) ==
    IF i > Len(sorted_callees) THEN st
    ELSE LET callee == sorted_callees[i]
         IN IF callee \in fs /\ callee \notin st.visited
            THEN dfs_first_loop(sorted_callees, i + 1, cs, fs,
                                dfs_first(callee, cs, fs, st))
            ELSE dfs_first_loop(sorted_callees, i + 1, cs, fs, st)

dfs_first(node, cs, fs, st) ==
    LET st1 == [st EXCEPT !.visited = @ \cup {node}]
        st2 == dfs_first_loop(SortedSeq(cs[node]), 1, cs, fs, st1)
    IN [st2 EXCEPT !.finish_order = Append(@, node)]

RECURSIVE first_pass(_, _, _, _, _)
\* The loop over sorted_functions that starts a DFS at every unvisited one.
first_pass(sorted_functions, i, cs, fs, st) ==
    IF i > Len(sorted_functions) THEN st
    ELSE LET func == sorted_functions[i]
         IN IF func \notin st.visited
            THEN first_pass(sorted_functions, i + 1, cs, fs,
                            dfs_first(func, cs, fs, st))
            ELSE first_pass(sorted_functions, i + 1, cs, fs, st)

\* The reverse graph built in the direction of the calls.
reverse_graph_forward(cs, fs, ord) ==
    [caller \in Names |->
        IF caller \in fs
        THEN SelectSeq(ord, LAMBDA callee : callee \in fs /\ callee \in cs[caller])
        ELSE << >>]

\* The callers pushed on reverse[callee], in the order the call map is iterated.
reverse_graph(cs, fs, ord) ==
    [callee \in Names |->
        IF callee \in fs
        THEN SelectSeq(ord, LAMBDA caller : caller \in fs /\ callee \in cs[caller])
        ELSE << >>]

RECURSIVE dfs_second(_, _, _)
RECURSIVE dfs_second_loop(_, _, _, _)

\* st = [visited, scc]; the loop over the sorted callers of a node.
dfs_second_loop(sorted_callers, i, reverse, st) ==
    IF i > Len(sorted_callers) THEN st
    ELSE LET caller == sorted_callers[i]
         IN IF caller \notin st.visited
            THEN dfs_second_loop(sorted_callers, i + 1, reverse,
                                 dfs_second(caller, reverse, st))
            ELSE dfs_second_loop(sorted_callers, i + 1, reverse, st)

dfs_second(node, reverse, st) ==
    LET st1 == [visited |-> st.visited \cup {node}, scc |-> Append(st.scc, node)]
    IN dfs_second_loop(Sort(reverse[node]), 1, reverse, st1)

RECURSIVE second_pass(_, _, _, _, _)
\* The loop over the reversed finish order; i runs from Len(finish_order) to 1.
second_pass(finish_order, i, reverse, visited, acc) ==
    IF i < 1 THEN acc
    ELSE LET func == finish_order[i]
         IN IF func \notin visited
            THEN LET r == dfs_second(func, reverse, [visited |-> visited, scc |-> << >>])
                 IN second_pass(finish_order, i - 1, reverse, r.visited,
                                Append(acc, r.scc))
            ELSE second_pass(finish_order, i - 1, reverse, visited, acc)

find_sccs(fs, cs, ord) ==
    LET sorted_functions == SortedSeq(fs)
        first == first_pass(sorted_functions, 1, cs, fs,
                            [visited |-> {}, finish_order |-> << >>])
        reverse == reverse_graph(cs, fs, ord)
    IN second_pass(first.finish_order, Len(first.finish_order), reverse, {}, << >>)

\* ---------------------------------------------------- topo.rs: assign_levels

\* func_to_scc: the index of the component that holds func (0 when none does).
func_to_scc(cc, func) ==
    IF \E k \in 1..Len(cc) : func \in Range(cc[k])
    THEN MaxOf({ k \in 1..Len(cc) : func \in Range(cc[k]) })
    ELSE 0

\* The SCC-level call graph with the self-edges kept.
scc_calls_self(cc, cs) ==
    [k \in 1..Len(cc) |->
        { func_to_scc(cc, callee) :
            callee \in { c \in Names : \E caller \in Range(cc[k]) : c \in cs[caller] } }
        \ {0}]

\* The SCC-level call graph: no edge from a component to itself.
scc_calls(cc, cs) ==
    [k \in 1..Len(cc) |->
        { func_to_scc(cc, callee) :
            callee \in { c \in Names : \E caller \in Range(cc[k]) : c \in cs[caller] } }
        \ {0, k}]

\* reverse_edges[callee_scc]: its callers, in the order scc_calls is iterated.
reverse_edges(sc, ord) ==
    [k \in DOMAIN sc |->
        SelectSeq(ord, LAMBDA c : c \in DOMAIN sc /\ k \in sc[c])]

\* A caller given the level of its callee.
new_level_same(current_level) == current_level

\* The level a finalized callee gives to its caller.
new_level(current_level) == current_level + 1

RECURSIVE kahn_callers(_, _, _, _)
\* The loop over the callers of the popped component; st = [queue, out_degree,
\* scc_levels], scc_levels a map on the components that have an entry.
kahn_callers(callers, i, current_level, st) ==
    IF i > Len(callers) THEN st
    ELSE LET caller_scc == callers[i]
             deg == st.out_degree[caller_scc] - 1
             existing == IF caller_scc \in DOMAIN st.scc_levels
                         THEN st.scc_levels[caller_scc] ELSE 0
             lvl == IF existing >= new_level(current_level)
                    THEN existing ELSE new_level(current_level)
             st1 == [queue |-> IF deg = 0 THEN Append(st.queue, caller_scc)
                               ELSE st.queue,
                     out_degree |-> [st.out_degree EXCEPT ![caller_scc] = deg],
                     scc_levels |-> [k \in DOMAIN st.scc_levels \cup {caller_scc} |->
                                       IF k = caller_scc THEN lvl
                                       ELSE st.scc_levels[k]]]
         IN kahn_callers(callers, i + 1, current_level, st1)

RECURSIVE kahn(_, _)
\* while let Some(scc_idx) = queue.pop_front()
kahn(re, st) ==
    IF st.queue = << >> THEN st
    ELSE LET scc_idx == Head(st.queue)
             current_level == st.scc_levels[scc_idx]
         IN kahn(re, kahn_callers(re[scc_idx], 1, current_level,
                                  [st EXCEPT !.queue = Tail(@)]))

\* Lines 19-103 of assign_levels, on the components cc that find_sccs returned.
levels_of(cc, fs, cs, ord) ==
    LET sc == scc_calls(cc, cs)
        out_degree == [k \in DOMAIN sc |-> Cardinality(sc[k])]
        re == reverse_edges(sc, ord)
        seeds == SelectSeq([k \in 1..Len(cc) |-> k], LAMBDA k : out_degree[k] = 0)
        final == kahn(re, [queue |-> seeds, out_degree |-> out_degree,
                           scc_levels |-> [k \in Range(seeds) |-> 0]])
    IN [func \in { f \in fs : func_to_scc(cc, f) # 0 } |->
          IF func_to_scc(cc, func) \in DOMAIN final.scc_levels
          THEN final.scc_levels[func_to_scc(cc, func)] ELSE 0]

assign_levels(fs, cs, ord) == levels_of(find_sccs(fs, cs, ord), fs, cs, ord)

\* --------------------------------------------------- topo.rs: group_by_level

\* The groups left in the order the level map was iterated.
group_by_level_unsorted(lv, ord) ==
    LET max_level == IF DOMAIN lv = {} THEN 0 ELSE MaxOf({ lv[f] : f \in DOMAIN lv })
    IN [g \in 1..(max_level + 1) |->
          SelectSeq(ord, LAMBDA f : f \in DOMAIN lv /\ lv[f] = g - 1)]

\* groups[level] holds the functions of the level, pushed in the iteration order
\* of the level map and then sorted. groups[g] of the model is groups[g - 1] of
\* the code.
group_by_level(lv, ord) ==
    LET max_level == IF DOMAIN lv = {} THEN 0 ELSE MaxOf({ lv[f] : f \in DOMAIN lv })
    IN [g \in 1..(max_level + 1) |->
          Sort(SelectSeq(ord, LAMBDA f : f \in DOMAIN lv /\ lv[f] = g - 1))]

\* ------------------------------------------------------------- resolver.rs
\* A string of the resolver is the sequence of its segments between the dots:
\* << "a", "T", "f" >> is "a.T.f". format!("{}.{}", x, y) is x \o y, raw.split('.')
\* is the sequence itself and two strings are equal when the sequences are.

\* The segments the model draws from, in byte order (upper case before lower).
Tokens == << "T", "a", "b", "f", "g", "t" >>

\* The segments that start with an upper-case letter.
UpperTokens == { "T" }

\* The sentinel target. It is no sequence of segments of Tokens.
UNRESOLVED == << "[unresolved]" >>

\* Option::None of Function.receiver.
NoReceiver == ""

TokRank(t) == CHOOSE i \in 1..Len(Tokens) : Tokens[i] = t

RECURSIVE StrLeq(_, _)
\* a <= b in the byte order of the two strings.
StrLeq(a, b) ==
    IF a = << >> THEN TRUE
    ELSE IF b = << >> THEN FALSE
    ELSE IF Head(a) = Head(b) THEN StrLeq(Tail(a), Tail(b))
    ELSE TokRank(Head(a)) < TokRank(Head(b))

RECURSIVE InsertStr(_, _)
InsertStr(x, s) ==
    IF s = << >> THEN << x >>
    ELSE IF StrLeq(x, Head(s)) THEN << x >> \o s
    ELSE << Head(s) >> \o InsertStr(x, Tail(s))

RECURSIVE SortStr(_)
\* Vec::sort on a vector of strings.
SortStr(s) == IF s = << >> THEN << >> ELSE InsertStr(Head(s), SortStr(Tail(s)))

RECURSIVE Dedup(_)
\* Vec::dedup: consecutive equal elements are reduced to the first.
Dedup(s) ==
    IF Len(s) <= 1 THEN s
    ELSE IF s[1] = s[2] THEN Dedup(Tail(s))
    ELSE << s[1] >> \o Dedup(Tail(s))

RECURSIVE Flatten(_)
\* The concatenation of a sequence of sequences.
Flatten(ss) == IF ss = << >> THEN << >> ELSE Head(ss) \o Flatten(Tail(ss))

\* extract_package: the prefix of a qualified name.
extract_package(qualified_name) ==
    LET n == Len(qualified_name)
    IN IF n >= 2
       THEN LET prefix == SubSeq(qualified_name, 1, n - 1)
            IN IF n >= 3 /\ prefix[n - 1] \in UpperTokens
               THEN SubSeq(prefix, 1, n - 2)
               ELSE prefix
       ELSE qualified_name

\* The functions of the files in the order a pass over files visits them: the
\* files in the iteration order ord of the map, the functions of a file in order.
\* Each element is << file_path, position in the file >>.
FunctionSlots(files, ord) ==
    Flatten([k \in 1..Len(ord) |->
               [i \in 1..Len(files[ord[k]]) |-> << ord[k], i >>]])

\* build_symbol_table: the keys under which a function is entered.
symbol_keys(func) ==
    { << func.name >> } \cup
    (IF func.receiver # NoReceiver THEN { << func.receiver, func.name >> } ELSE {})

\* build_symbol_table: symbol_table, a map from each key to the vector of
\* (qualified_name, file_path) pushed under it.
build_symbol_table(files, ord) ==
    LET slots == FunctionSlots(files, ord)
        keys == UNION { symbol_keys(files[sl[1]][sl[2]]) : sl \in Range(slots) }
    IN [key \in keys |->
          LET hits == SelectSeq(slots,
                        LAMBDA sl : key \in symbol_keys(files[sl[1]][sl[2]]))
          IN [k \in 1..Len(hits) |->
                << files[hits[k][1]][hits[k][2]].qualified_name, hits[k][1] >>]]

\* build_symbol_table: qualified_to_file; the last insert of a name wins.
build_qualified_to_file(files, ord) ==
    LET slots == FunctionSlots(files, ord)
        names == { files[sl[1]][sl[2]].qualified_name : sl \in Range(slots) }
    IN [qn \in names |->
          LET hits == SelectSeq(slots,
                        LAMBDA sl : files[sl[1]][sl[2]].qualified_name = qn)
          IN hits[Len(hits)][1]]

\* A symbol table in which the first of several matches is taken.
find_single_match_first(st, key) ==
    IF key \in DOMAIN st /\ Len(st[key]) >= 1 THEN st[key][1][1] ELSE UNRESOLVED

\* find_single_match: the only match of the key, [unresolved] if none or several.
find_single_match(st, key) ==
    IF key \in DOMAIN st /\ Len(st[key]) = 1 THEN st[key][1][1] ELSE UNRESOLVED

\* resolve_call without the look-up of the same-package name.
resolve_call_unchecked(st, q2f, raw, package) ==
    IF Len(raw) = 1 THEN package \o raw
    ELSE IF Len(raw) = 2
    THEN IF raw \in DOMAIN q2f THEN raw
         ELSE IF package \o raw \in DOMAIN q2f THEN package \o raw
         ELSE find_single_match(st, raw)
    ELSE find_single_match(st, SubSeq(raw, Len(raw) - 1, Len(raw)))

\* resolve_call without the look-up of the two-part text as a qualified name.
resolve_call_no_verbatim(st, q2f, raw, package) ==
    IF Len(raw) = 1
    THEN IF package \o raw \in DOMAIN q2f THEN package \o raw
         ELSE find_single_match(st, raw)
    ELSE IF Len(raw) = 2
    THEN IF package \o raw \in DOMAIN q2f THEN package \o raw
         ELSE find_single_match(st, raw)
    ELSE find_single_match(st, SubSeq(raw, Len(raw) - 1, Len(raw)))

\* resolve_call: raw is the call expression split at the dots.
resolve_call(st, q2f, raw, package) ==
    IF Len(raw) = 1
    THEN IF package \o raw \in DOMAIN q2f THEN package \o raw
         ELSE find_single_match(st, raw)
    ELSE IF Len(raw) = 2
    THEN IF raw \in DOMAIN q2f THEN raw
         ELSE IF package \o raw \in DOMAIN q2f THEN package \o raw
         ELSE find_single_match(st, raw)
    ELSE find_single_match(st, SubSeq(raw, Len(raw) - 1, Len(raw)))

\* resolve: the package of a file, from its first function ("" without one).
file_package(entry) ==
    IF Len(entry) >= 1 THEN extract_package(entry[1].qualified_name) ELSE << >>

\* resolve, first pass: the files with every call target written.
resolve_targets(st, q2f, files) ==
    [path \in DOMAIN files |->
       [i \in 1..Len(files[path]) |->
          [files[path][i] EXCEPT !.calls =
             [c \in 1..Len(files[path][i].calls) |->
                [raw |-> files[path][i].calls[c].raw,
                 target |-> resolve_call(st, q2f, files[path][i].calls[c].raw,
                                         file_package(files[path]))]]]]]

\* A first pass that pushes the caller of every resolved call for every target.
calls_to_targets_any(files, ord, target) ==
    LET slots == FunctionSlots(files, ord)
    IN Flatten([k \in 1..Len(slots) |->
         LET func == files[slots[k][1]][slots[k][2]]
             hits == SelectSeq(func.calls, LAMBDA call : call.target # UNRESOLVED)
         IN [c \in 1..Len(hits) |-> func.qualified_name]])

\* resolve, first pass: calls_to_targets[target], the callers pushed for the
\* target in the order the files, their functions and their calls are visited.
calls_to_targets(files, ord, target) ==
    LET slots == FunctionSlots(files, ord)
    IN Flatten([k \in 1..Len(slots) |->
         LET func == files[slots[k][1]][slots[k][2]]
             hits == SelectSeq(func.calls, LAMBDA call : call.target = target)
         IN [c \in 1..Len(hits) |-> func.qualified_name]])

\* The callers of a function left as they were pushed.
called_by_of_unsorted(callers) == Dedup(callers)

\* resolve, second pass: the called_by written for a function that has callers.
called_by_of(callers) == Dedup(SortStr(callers))

\* resolve: both passes on the files of the index.
resolve(st, q2f, files, ord) ==
    LET resolved == resolve_targets(st, q2f, files)
    IN [path \in DOMAIN files |->
          [i \in 1..Len(files[path]) |->
             LET func == resolved[path][i]
                 callers == calls_to_targets(resolved, ord, func.qualified_name)
             IN IF callers # << >>
                THEN [func EXCEPT !.called_by = called_by_of(callers)]
                ELSE func]]

\* ------------------------------------------- summarizer.rs, commands/index.rs

\* Option::None of Function.summary.
None == "None"

\* load_existing_index: the old index, its functions each an [ast_hash, summary];
\* NoIndex is the None of a missing or unreadable index.json.
NoIndex == [loaded |-> FALSE, functions |-> {}]

OldIndex(fs) == [loaded |-> TRUE, functions |-> fs]

\* The summary an LLM call returned for a request.
Generated == "generated"

\* parse_batch_response: the summary of a request whose marker is missing.
Placeholder == "(failed to parse summary)"

\* A SummaryResult whose summary is Err.
Failed == "Err"

\* Summarizer::new: batch_size and parallel raised to at least 1.
at_least_one(n) == IF n < 1 THEN 1 ELSE n

\* A split into batches of one request each.
chunks_of_one(v, size) == [k \in 1..Len(v) |-> << v[k] >>]

\* slice::chunks(size): the consecutive chunks of a vector.
chunks(v, size) ==
    [k \in 1..((Len(v) + size - 1) \div size) |->
        SubSeq(v, (k - 1) * size + 1,
               IF k * size < Len(v) THEN k * size ELSE Len(v))]

\* preserve_summaries: the maps old_summaries can end as. A hash that several old
\* functions with a summary share keeps the summary inserted last, which the
\* iteration order of the old files decides.
old_summaries(old) ==
    LET with == { q \in old : q.summary # None }
        hashes == { q.ast_hash : q \in with }
    IN { m \in [hashes -> { q.summary : q \in with }] :
           \A h \in hashes : \E q \in with : q.ast_hash = h /\ q.summary = m[h] }

\* A carry-forward that carries nothing.
preserve_summaries_skip(sm, hash, m) == sm

\* preserve_summaries: the summaries of the new index after the carry-forward.
preserve_summaries(sm, hash, m) ==
    [f \in DOMAIN sm |->
        IF sm[f] = None /\ hash[f] \in DOMAIN m THEN m[hash[f]] ELSE sm[f]]

\* A callee context of at most one entry.
callee_context_first(sm, targets) ==
    LET have == SelectSeq(SortedSeq(targets), LAMBDA c : c \in DOMAIN sm)
    IN IF have = << >> THEN << >> ELSE << << have[1], sm[have[1]] >> >>

\* A request composed without looking up the summaries map.
callee_context_none(sm, targets) == << >>

\* run_summarization: the callee context of a request, one (callee, summary) for
\* every resolved call whose target has a summary.
callee_context(sm, targets) ==
    LET have == SelectSeq(SortedSeq(targets), LAMBDA c : c \in DOMAIN sm)
    IN [k \in 1..Len(have) |-> << have[k], sm[have[k]] >>]

\* A level of which every function gets a request.
level_requests_all(sm, funcs_at_level) == funcs_at_level

\* run_summarization: the functions of a level that get a request, in order.
level_requests(sm, funcs_at_level) ==
    SelectSeq(funcs_at_level, LAMBDA qn : qn \notin DOMAIN sm)

\* run_summarization: the requests of a level. The signature and the body of a
\* request are those of the function func; ids count from 1.
compose_requests(sm, funcs_at_level, targets) ==
    LET qnames == level_requests(sm, funcs_at_level)
    IN [k \in 1..Len(qnames) |->
          [id |-> k, func |-> qnames[k],
           callee_context |-> callee_context(sm, targets[qnames[k]])]]

\* A parse whose results all carry the id of the first request of the batch.
parse_batch_response_first_id(batch, markers) ==
    [k \in 1..Len(batch) |->
        [id |-> batch[1].id,
         summary |-> IF k \in markers THEN Generated ELSE Placeholder]]

\* parse_batch_response: one Ok result per request of the batch; markers is the
\* set of the k whose marker "[k]:" starts a line of the response.
parse_batch_response(batch, markers) ==
    [k \in 1..Len(batch) |->
        [id |-> batch[k].id,
         summary |-> IF k \in markers THEN Generated ELSE Placeholder]]

\* An error result for the first request of the batch only.
batch_error_first(batch) ==
    [k \in 1..Len(batch) |->
        [id |-> batch[k].id, summary |-> IF k = 1 THEN Failed ELSE Placeholder]]

\* process_batch: an error result for every request of a batch whose call failed.
batch_error(batch) ==
    [k \in 1..Len(batch) |-> [id |-> batch[k].id, summary |-> Failed]]

\* A result that is not stored.
insert_summary_skip(sm, qn, summary) == sm

\* run_summarization, line 363: the summaries map with a result stored.
insert_summary(sm, qn, summary) ==
    [f \in DOMAIN sm \cup {qn} |-> IF f = qn THEN summary ELSE sm[f]]

\* The topology engine, the resolver, the index run when they are not part of a
\* specification.
TopoOff ==
    /\ functions = {} /\ calls = << >> /\ sccs = << >> /\ levels = << >>
    /\ groups = << >> /\ topo_pc = "off"

ResolverOff ==
    /\ index_files = << >> /\ symbol_table = << >> /\ qualified_to_file = << >>
    /\ res_pc = "off"

ParseOff == pb_batch = << >> /\ pb_response = << >> /\ pb_results = << >>

StoreOff ==
    /\ emb_store = << >> /\ idx_file = << >> /\ bin_file = << >>
    /\ emb_pc = "off" /\ emb_result = << >> /\ emb_before = << >> /\ emb_ops = 0

LoadOff ==
    /\ index_json = << >> /\ cmd = "off" /\ cmd_index = << >> /\ cmd_exit = "off"

QueryOff ==
    /\ q_functions = {} /\ q_calls = << >> /\ q_called_by = << >>
    /\ q_cmd = "off" /\ q_name = 0 /\ q_depth = 0 /\ q_pc = "off"
    /\ q_chain = << >> /\ q_current = 0 /\ q_chain_visited = {}
    /\ q_stack = << >> /\ q_visited = {} /\ q_output = << >>

CmdOff == LoadOff /\ QueryOff

RunOff ==
    /\ config = << >> /\ old_index = NoIndex /\ ast_hash = << >>
    /\ stored_index = NoIndex /\ index_writes = 0 /\ requested = << >>
    /\ index_calls = << >> /\ index_summary = << >> /\ run_pc = "off"
    /\ summaries = << >> /\ level = 0 /\ requests = << >>
    /\ request_qnames = << >> /\ batches = << >> /\ spawned = 0
    /\ handles = << >> /\ threads = << >> /\ channel = << >>
    /\ results = << >> /\ rpos = 0 /\ prompted = {} /\ outcome = << >>
    /\ warned = {}

\* ------------------------------------------------ the resolver on an index

\* The paths of the files of the index.
Files == { "x.go", "y.go" }

\* The iteration orders of the map of the files.
FileOrders == { o \in [1..Cardinality(Files) -> Files] :
                  \A i, j \in DOMAIN o : i # j => o[i] # o[j] }

\* The path prefixes (directories) of the files: x.go lies in a, y.go in a or b.
Prefixes == { p \in [Files -> { "a", "b" }] : p["x.go"] = "a" }

\* What the parser reads of a declaration: a free function f, a method f of the
\* type T and a method g of the unexported type t.
FuncKinds ==
    { [name |-> "f", receiver |-> NoReceiver], [name |-> "f", receiver |-> "T"],
      [name |-> "g", receiver |-> "t"] }

\* The call expressions found in the bodies.
Raws == { << "f" >>, << "g" >>, << "T", "f" >>, << "a", "f" >>, << "b", "T", "f" >> }

\* The qualified name the parser gives a function or a method of a directory.
go_qualified_name(prefix, kind) ==
    IF kind.receiver = NoReceiver THEN << prefix, kind.name >>
    ELSE << prefix, kind.receiver, kind.name >>

\* The declarations of one file: at most MaxFuncs, no two alike.
KindLists ==
    UNION { { l \in [1..n -> FuncKinds] : \A i, j \in 1..n : i # j => l[i] # l[j] } :
            n \in 0..MaxFuncs }

\* The call sites of an index: at most MaxCallSites, each in the body of the
\* pos-th function of a file.
CallPlacements ==
    UNION { [1..n -> [file : Files, pos : 1..MaxFuncs, raw : Raws]] :
            n \in 0..MaxCallSites }

\* The file entry the parser returns: every target [unresolved], no called_by.
parse_file(path, prefix, kinds, placed) ==
    [i \in 1..Len(kinds) |->
       [name |-> kinds[i].name,
        qualified_name |-> go_qualified_name(prefix, kinds[i]),
        receiver |-> kinds[i].receiver,
        calls |-> LET mine == SelectSeq(placed,
                                LAMBDA c : c.file = path /\ c.pos = i)
                  IN [k \in 1..Len(mine) |->
                        [raw |-> mine[k].raw, target |-> UNRESOLVED]],
        called_by |-> << >>]]

InitResolve ==
    /\ \E prefix \in Prefixes, kinds \in [Files -> KindLists],
          placed \in CallPlacements :
          /\ \A k \in DOMAIN placed : placed[k].pos <= Len(kinds[placed[k].file])
          /\ index_files =
                [path \in Files |-> parse_file(path, prefix[path], kinds[path], placed)]
    /\ symbol_table = << >>
    /\ qualified_to_file = << >>
    /\ res_pc = "parsed"
    /\ TopoOff
    /\ RunOff
    /\ ParseOff
    /\ StoreOff
    /\ CmdOff

\* resolver.build_symbol_table(&index.files)
BuildSymbolTable ==
    /\ res_pc = "parsed"
    /\ \E ord \in FileOrders :
          /\ symbol_table' = build_symbol_table(index_files, ord)
          /\ qualified_to_file' = build_qualified_to_file(index_files, ord)
    /\ res_pc' = "built"
    /\ UNCHANGED << index_files, topo_vars, run_vars, unit_vars >>

\* resolver.resolve(&mut index)
Resolve ==
    /\ res_pc = "built"
    /\ \E ord \in FileOrders :
          index_files' = resolve(symbol_table, qualified_to_file, index_files, ord)
    /\ res_pc' = "resolved"
    /\ UNCHANGED << symbol_table, qualified_to_file, topo_vars, run_vars, unit_vars >>

NextResolve == BuildSymbolTable \/ Resolve

SpecResolve == InitResolve /\ [][NextResolve]_vars

\* ------------------------------------------ the topology engine on its own

\* Every call map over the names with at most MaxEdges edges; calls[n] = {} stands
\* for a caller without an entry as well as for one with an empty callee set.
CallMaps == { c \in [Names -> SUBSET Names] :
                Cardinality({ e \in Names \X Names : e[2] \in c[e[1]] }) <= MaxEdges }

\* The function sets: all the names, or all but one (the call map may then name a
\* caller or a callee that is not a function of the set).
FunctionSets == { Names \ X : X \in {{}} \cup { {n} : n \in Names } }

InitTopo ==
    /\ functions \in FunctionSets
    /\ calls \in CallMaps
    /\ sccs = << >>
    /\ levels = << >>
    /\ groups = << >>
    /\ topo_pc = "start"
    /\ ResolverOff
    /\ RunOff
    /\ ParseOff
    /\ StoreOff
    /\ CmdOff

AssignLevels ==
    /\ topo_pc = "start"
    /\ \E ord \in HashOrders :
          /\ sccs' = find_sccs(functions, calls, ord)
          /\ levels' = levels_of(sccs', functions, calls, ord)
    /\ topo_pc' = "levels"
    /\ UNCHANGED << functions, calls, groups, res_vars, run_vars, unit_vars >>

GroupByLevel ==
    /\ topo_pc = "levels"
    /\ \E ord \in HashOrders : groups' = group_by_level(levels, ord)
    /\ topo_pc' = "done"
    /\ UNCHANGED << functions, calls, sccs, levels, res_vars, run_vars, unit_vars >>

NextTopo == AssignLevels \/ GroupByLevel

SpecTopo == InitTopo /\ [][NextTopo]_vars

\* ------------------------------------------- parse_batch_response on a text

\* A response is a sequence of lines, as str::lines gives them; a line is a
\* sequence of pieces: a marker "[k]:", a run of whitespace, or other text.

\* format!("[{}]:", i + 1)
marker(k) == "[" \o ToString(k) \o "]:"

\* format!("(failed to parse summary for function {})", i + 1)
placeholder(k) == "(failed to parse summary for function " \o ToString(k) \o ")"

Whitespace == " "

\* str::starts_with, for a marker.
starts_with(line, m) == line # << >> /\ Head(line) = m

RECURSIVE trim_start(_)
trim_start(line) ==
    IF line # << >> /\ Head(line) = Whitespace THEN trim_start(Tail(line)) ELSE line

RECURSIVE trim_end(_)
trim_end(line) ==
    IF line # << >> /\ line[Len(line)] = Whitespace
    THEN trim_end(SubSeq(line, 1, Len(line) - 1)) ELSE line

\* A trim of the leading whitespace only.
trim_leading_only(line) == trim_start(line)

\* str::trim
trim(line) == trim_end(trim_start(line))

\* Iterator::find over the lines: the first line that starts with the marker.
RECURSIVE find_line(_, _)
find_line(lines, m) ==
    IF lines = << >> THEN [found |-> FALSE, line |-> << >>]
    ELSE IF starts_with(Head(lines), m) THEN [found |-> TRUE, line |-> Head(lines)]
    ELSE find_line(Tail(lines), m)

\* parse_batch_response on the text of a response: the result of the request at
\* position k, always Ok.
parse_summary(response, k) ==
    LET hit == find_line(response, marker(k))
    IN IF hit.found THEN trim(Tail(hit.line)) ELSE << placeholder(k) >>

parse_batch_response_text(batch, response) ==
    [k \in 1..Len(batch) |->
        [id |-> batch[k].id, ok |-> TRUE, summary |-> parse_summary(response, k)]]

\* The markers a response holds at the start of a line: what parse_batch_response
\* of the index run is given.
response_markers(batch, response) ==
    { k \in 1..Len(batch) : find_line(response, marker(k)).found }

\* The batches: two or more requests, their ids those of a first or of a later
\* batch of the level.
ParseBatches ==
    { [k \in 1..n |-> [id |-> base + k, func |-> k, callee_context |-> << >>]] :
        n \in 2..(MaxBatchSize + 1), base \in { 0, MaxBatchSize } }

ResponsePieces == { marker(k) : k \in 1..2 } \cup { Whitespace, "text" }

ResponseLines == UNION { [1..n -> ResponsePieces] : n \in 0..MaxLineLen }

ResponseTexts == UNION { [1..n -> ResponseLines] : n \in 0..MaxLines }

InitParse ==
    /\ pb_batch \in ParseBatches
    /\ pb_response \in ResponseTexts
    /\ pb_results = << >>
    /\ TopoOff /\ ResolverOff /\ RunOff /\ StoreOff /\ CmdOff

\* One call of parse_batch_response(&batch, &response).
ParseBatchResponse ==
    /\ Len(pb_results) < 2
    /\ pb_results' = Append(pb_results, parse_batch_response_text(pb_batch, pb_response))
    /\ UNCHANGED << pb_batch, pb_response, topo_vars, res_vars, run_vars, store_vars, cmd_vars >>

NextParse == ParseBatchResponse

SpecParse == InitParse /\ [][NextParse]_vars

\* ------------------------------------------------------- embeddings.rs

\* The qualified names of the store; their order is the lexicographic one.
EmbNames == 1..MaxEntries

\* The f32 values, as bit patterns of two or more bytes.
Floats == { 1, 258 }

\* f32::to_le_bytes
to_le_bytes(val) ==
    << val % 256, (val \div 256) % 256, (val \div 65536) % 256,
       (val \div 16777216) % 256 >>

\* f32::from_le_bytes
from_le_bytes(chunk) ==
    chunk[1] + 256 * chunk[2] + 65536 * chunk[3] + 16777216 * chunk[4]

\* A file that does not exist, and a file with its content.
NoFile == [exists |-> FALSE, data |-> << >>]

File(data) == [exists |-> TRUE, data |-> data]

\* EmbeddingStore::new
new_store == << >>

\* HashMap::insert
store_insert(store, name, embedding) ==
    [n \in DOMAIN store \cup { name } |-> IF n = name THEN embedding ELSE store[n]]

\* save, lines 77-78: the names, sorted.
sorted_names(store) == SortedSeq(DOMAIN store)

\* save, lines 91-97: the bytes of one embedding.
RECURSIVE embedding_bytes(_)
embedding_bytes(embedding) ==
    IF embedding = << >> THEN << >>
    ELSE to_le_bytes(Head(embedding)) \o embedding_bytes(Tail(embedding))

\* save, lines 88-98: the bytes of the binary file, the embeddings in the order
\* of the names.
RECURSIVE bin_bytes(_, _)
bin_bytes(store, names) ==
    IF names = << >> THEN << >>
    ELSE embedding_bytes(store[Head(names)]) \o bin_bytes(store, Tail(names))

\* load, lines 59-62: the embedding of a buffer of EMBEDDING_DIM * 4 bytes.
read_embedding(buf) ==
    [k \in 1..EMBEDDING_DIM |-> from_le_bytes(SubSeq(buf, 4 * k - 3, 4 * k))]

\* load, lines 56-66: one buffer per name, read in order and inserted.
RECURSIVE read_entries(_, _, _)
read_entries(names, bytes, store) ==
    IF names = << >> THEN store
    ELSE read_entries(Tail(names),
                      SubSeq(bytes, EMBEDDING_DIM * 4 + 1, Len(bytes)),
                      store_insert(store, Head(names),
                                   read_embedding(SubSeq(bytes, 1, EMBEDDING_DIM * 4))))

\* EmbeddingStore::load: Ok with a store, or Err.
load(idx, bin) ==
    IF ~idx.exists \/ ~bin.exists THEN [ok |-> TRUE, store |-> new_store]
    ELSE IF Len(bin.data) # Len(idx.data) * EMBEDDING_DIM * 4
         THEN [ok |-> FALSE, store |-> new_store]
         ELSE [ok |-> TRUE, store |-> read_entries(idx.data, bin.data, new_store)]

\* A retain that keeps every entry.
retain_all(store, valid_names) == store

\* prune_embeddings, line 145: HashMap::retain.
retain(store, valid_names) ==
    [n \in DOMAIN store \cap valid_names |-> store[n]]

\* The embeddings a caller can hand to insert: Vec<f32> of any length, here one
\* less than EMBEDDING_DIM up to one more.
Embeddings ==
    UNION { [1..n -> Floats] : n \in (EMBEDDING_DIM - 1)..(EMBEDDING_DIM + 1) }

NoResult == [op |-> "none", ok |-> TRUE, removed |-> 0]

\* The operation has not returned.
Running == [op |-> "running", ok |-> TRUE, removed |-> 0]

NoSnapshot == [op |-> "none", store |-> new_store, idx |-> NoFile, bin |-> NoFile,
               valid |-> {}, done |-> FALSE]

\* An empty state directory and no process.
InitStore ==
    /\ emb_store = new_store
    /\ idx_file = NoFile
    /\ bin_file = NoFile
    /\ emb_pc = "stopped"
    /\ emb_result = NoResult
    /\ emb_before = NoSnapshot
    /\ emb_ops = 0
    /\ TopoOff /\ ResolverOff /\ RunOff /\ ParseOff /\ CmdOff

\* A process starts with EmbeddingStore::new().
New ==
    /\ emb_pc = "stopped" /\ emb_ops < MaxOps
    /\ emb_store' = new_store
    /\ emb_pc' = "ready"
    /\ emb_result' = [op |-> "new", ok |-> TRUE, removed |-> 0]
    /\ emb_ops' = emb_ops + 1
    /\ UNCHANGED << idx_file, bin_file, emb_before,
                    topo_vars, res_vars, run_vars, parse_vars, cmd_vars >>

\* A process starts with EmbeddingStore::load(aria_dir); on Err it has no store.
Load ==
    /\ emb_pc = "stopped" /\ emb_ops < MaxOps
    /\ LET r == load(idx_file, bin_file)
       IN /\ emb_store' = r.store
          /\ emb_pc' = IF r.ok THEN "ready" ELSE "stopped"
          /\ emb_result' = [op |-> "load", ok |-> r.ok, removed |-> 0]
    /\ emb_ops' = emb_ops + 1
    /\ UNCHANGED << idx_file, bin_file, emb_before,
                    topo_vars, res_vars, run_vars, parse_vars, cmd_vars >>

\* store.insert(qualified_name, embedding)
InsertEmbedding ==
    /\ emb_pc = "ready" /\ emb_ops < MaxOps
    /\ \E name \in EmbNames, embedding \in Embeddings :
          emb_store' = store_insert(emb_store, name, embedding)
    /\ emb_result' = [op |-> "insert", ok |-> TRUE, removed |-> 0]
    /\ emb_ops' = emb_ops + 1
    /\ UNCHANGED << idx_file, bin_file, emb_pc, emb_before,
                    topo_vars, res_vars, run_vars, parse_vars, cmd_vars >>

\* save, lines 72-81: store.save(aria_dir) begins, File::create truncates or
\* creates embeddings.idx.
SaveCreateIdx ==
    /\ emb_pc = "ready" /\ emb_ops < MaxOps
    /\ emb_before' = [op |-> "save", store |-> emb_store, idx |-> idx_file,
                      bin |-> bin_file, valid |-> {}, done |-> FALSE]
    /\ idx_file' = File(<< >>)
    /\ emb_pc' = "idx_created"
    /\ emb_result' = Running
    /\ emb_ops' = emb_ops + 1
    /\ UNCHANGED << emb_store, bin_file, topo_vars, res_vars, run_vars, parse_vars, cmd_vars >>

\* save, lines 82-86: the names are written and flushed.
SaveWriteIdx ==
    /\ emb_pc = "idx_created"
    /\ idx_file' = File(sorted_names(emb_store))
    /\ emb_pc' = "idx_written"
    /\ UNCHANGED << emb_store, bin_file, emb_result, emb_before, emb_ops,
                    topo_vars, res_vars, run_vars, parse_vars, cmd_vars >>

\* save, line 89: File::create truncates or creates embeddings.bin.
SaveCreateBin ==
    /\ emb_pc = "idx_written"
    /\ bin_file' = File(<< >>)
    /\ emb_pc' = "bin_created"
    /\ UNCHANGED << emb_store, idx_file, emb_result, emb_before, emb_ops,
                    topo_vars, res_vars, run_vars, parse_vars, cmd_vars >>

\* save, lines 90-100: the embeddings are written and flushed, save returns; a
\* save inside prune_embeddings ends the prune (lines 148-152).
SaveWriteBin ==
    /\ emb_pc = "bin_created"
    /\ bin_file' = File(bin_bytes(emb_store, sorted_names(emb_store)))
    /\ IF emb_before.op = "prune"
       THEN /\ emb_pc' = "stopped"
            /\ emb_result' = [op |-> "prune", ok |-> TRUE,
                              removed |-> Cardinality(DOMAIN emb_before.store)
                                          - Cardinality(DOMAIN emb_store)]
            /\ emb_store' = new_store
       ELSE /\ emb_pc' = "ready"
            /\ emb_result' = [op |-> "save", ok |-> TRUE, removed |-> 0]
            /\ UNCHANGED emb_store
    /\ emb_before' = [emb_before EXCEPT !.done = TRUE]
    /\ UNCHANGED << idx_file, emb_ops, topo_vars, res_vars, run_vars, parse_vars, cmd_vars >>

\* prune_embeddings, lines 141-153, up to the save: the store is loaded, the
\* names that are not valid are dropped; without a removal the call returns 0.
Prune ==
    /\ emb_pc = "stopped" /\ emb_ops < MaxOps
    /\ \E valid_names \in SUBSET EmbNames :
          LET r == load(idx_file, bin_file)
              kept == retain(r.store, valid_names)
              removed == Cardinality(DOMAIN r.store) - Cardinality(DOMAIN kept)
          IN /\ emb_before' = [op |-> "prune", store |-> r.store, idx |-> idx_file,
                               bin |-> bin_file, valid |-> valid_names,
                               done |-> ~(r.ok /\ removed > 0)]
             /\ IF r.ok /\ removed > 0
                THEN /\ emb_store' = kept
                     /\ idx_file' = File(<< >>)
                     /\ emb_pc' = "idx_created"
                     /\ emb_result' = Running
                ELSE /\ emb_result' = [op |-> "prune", ok |-> r.ok, removed |-> 0]
                     /\ UNCHANGED << emb_store, idx_file, emb_pc >>
    /\ emb_ops' = emb_ops + 1
    /\ UNCHANGED << bin_file, topo_vars, res_vars, run_vars, parse_vars, cmd_vars >>

\* The process stops, at any point; what it held in memory is gone.
Stop ==
    /\ emb_pc \notin { "stopped", "off" }
    /\ emb_result' = [op |-> IF emb_pc = "ready" THEN "exit" ELSE "interrupted",
                      ok |-> TRUE, removed |-> 0]
    /\ emb_store' = new_store
    /\ emb_pc' = "stopped"
    /\ UNCHANGED << idx_file, bin_file, emb_before, emb_ops,
                    topo_vars, res_vars, run_vars, parse_vars, cmd_vars >>

NextStore ==
    \/ New
    \/ Load
    \/ InsertEmbedding
    \/ SaveCreateIdx
    \/ SaveWriteIdx
    \/ SaveCreateBin
    \/ SaveWriteBin
    \/ Prune
    \/ Stop

SpecStore == InitStore /\ [][NextStore]_vars

\* ------------------------------------------------------------ the index run

\* process_batch: what call_claude can return for a batch, an error or a response;
\* of a response to a batch prompt only the markers it holds matter.
Responses(batch) ==
    { [ok |-> FALSE, markers |-> {}] } \cup
    { [ok |-> TRUE, markers |-> m] :
        m \in IF Len(batch) = 1 THEN { {} } ELSE SUBSET (1..Len(batch)) }

\* process_batch: the results of a batch.
process_batch(batch, response) ==
    IF Len(batch) = 1
    THEN << [id |-> batch[1].id,
             summary |-> IF response.ok THEN Generated ELSE Failed] >>
    ELSE IF response.ok THEN parse_batch_response(batch, response.markers)
                        ELSE batch_error(batch)

\* A summaries map that starts empty.
existing_summaries_none(sm) == << >>

\* run_summarization, lines 226-233: the summaries the index already holds.
existing_summaries(sm) ==
    [f \in { g \in DOMAIN sm : sm[g] # None } |-> sm[f]]

\* run_summarization, lines 236-244: the functions of the levels without a summary.
total(level_groups, sm) ==
    Cardinality({ qn \in UNION { Range(level_groups[g]) : g \in DOMAIN level_groups } :
                    qn \notin DOMAIN sm })

\* run, lines 133-143: the document serde_json::to_string_pretty makes of the
\* index, of which the hash and the summary of every function are kept.
index_document(hash, sm) ==
    OldIndex({ [qualified_name |-> f, ast_hash |-> hash[f], summary |-> sm[f]] :
               f \in DOMAIN sm })

\* An index run that writes index.json after every level.
after_level_write(l) == "write_index"

\* The for loop over level_groups: where the run goes with level l next.
after_level(l) == IF l > Len(groups) THEN "write_index" ELSE "level"

\* A join that never returns.
joined_never(th) == FALSE

\* A join that does not wait.
joined_at_once(th) == TRUE

\* handle.join() returns once the thread has ended.
joined(th) == th.state = "done"

\* rx.into_iter() ends once every sender is dropped: tx by drop(tx), each clone
\* with the thread that owns it.
senders_dropped(ths) == \A t \in DOMAIN ths : ths[t].state = "done"

\* The functions the requests of a batch are for.
batch_funcs(batch) == { batch[k].func : k \in DOMAIN batch }

\* The functions an old index can hold: two contents, the first summarized in
\* one of two ways, the second in one way or not at all.
PriorFunctions ==
    { q \in [ast_hash : 1..2, summary : { None, "s1", "s2" }] :
        /\ q.ast_hash = 1 => q.summary # None
        /\ q.ast_hash = 2 => q.summary # "s2" }

Configs == [summaries : BOOLEAN, batch_size : 1..MaxBatchSize,
            parallel : 1..MaxParallel]

\* The state after resolver.resolve: every summary is None, as the parser left it.
InitIndexRun(configs, call_maps, hashes, old_indexes) ==
    /\ config \in configs
    /\ old_index \in old_indexes
    /\ stored_index = old_index
    /\ index_writes = 0
    /\ requested = [f \in Names |-> 0]
    /\ ast_hash \in hashes
    /\ index_calls \in call_maps
    /\ index_summary = [f \in Names |-> None]
    /\ run_pc = "resolved"
    /\ summaries = << >> /\ level = 0 /\ requests = << >>
    /\ request_qnames = << >> /\ batches = << >> /\ spawned = 0
    /\ handles = << >> /\ threads = << >> /\ channel = << >>
    /\ results = << >> /\ rpos = 0 /\ prompted = {}
    /\ outcome = [f \in Names |-> "none"]
    /\ warned = {}
    /\ TopoOff
    /\ ResolverOff
    /\ ParseOff
    /\ StoreOff
    /\ CmdOff

\* run, lines 105-113: preserve_summaries, then the branch on features.summaries.
PreserveSummaries ==
    /\ run_pc = "resolved"
    /\ IF ~old_index.loaded
       THEN index_summary' = index_summary
       ELSE \E m \in old_summaries(old_index.functions) :
               index_summary' = preserve_summaries(index_summary, ast_hash, m)
    /\ run_pc' = IF config.summaries THEN "summarize" ELSE "write_index"
    /\ UNCHANGED << config, old_index, stored_index, index_writes, requested,
                    ast_hash, index_calls, summaries, level,
                    requests, request_qnames, batches, spawned, handles, threads,
                    channel, results, rpos, prompted, outcome, warned,
                    topo_vars, res_vars, unit_vars >>

\* run_summarization, lines 172-250: the call graph, the levels, the summaries map
\* and the early return when nothing is left to summarize.
StartSummarization ==
    /\ run_pc = "summarize"
    /\ functions' = Names
    /\ calls' = index_calls
    /\ \E ord \in HashOrders :
          /\ levels' = assign_levels(functions', calls', ord)
          /\ groups' = group_by_level(levels', ord)
    /\ summaries' = existing_summaries(index_summary)
    /\ level' = 1
    /\ run_pc' = IF total(groups', summaries') = 0 THEN "write_index" ELSE "level"
    /\ UNCHANGED << config, old_index, stored_index, index_writes, requested,
                    ast_hash, index_calls, index_summary,
                    requests, request_qnames, batches, spawned, handles, threads,
                    channel, results, rpos, prompted, outcome, warned,
                    sccs, topo_pc, res_vars, unit_vars >>

\* run_summarization, lines 257-355 and summarize_batch, lines 64-81: the requests
\* of the level, and their batches; a level without a request is skipped.
ComposeRequests ==
    /\ run_pc = "level"
    /\ requests' = compose_requests(summaries, groups[level], index_calls)
    /\ request_qnames' = [k \in DOMAIN requests' |-> requests'[k].func]
    /\ IF requests' = << >>
       THEN /\ level' = level + 1
            /\ run_pc' = after_level(level + 1)
            /\ UNCHANGED batches
       ELSE /\ batches' = chunks(requests', at_least_one(config.batch_size))
            /\ run_pc' = "spawn"
            /\ UNCHANGED level
    /\ spawned' = 0
    /\ requested' = [f \in Names |->
                       requested[f] + Cardinality({ k \in DOMAIN requests' :
                                                      requests'[k].func = f })]
    /\ UNCHANGED << config, old_index, stored_index, index_writes, ast_hash, index_calls, index_summary,
                    summaries, handles, threads, channel, results, rpos,
                    prompted, outcome, warned, topo_vars, res_vars, unit_vars >>

\* summarize_batch, lines 84-97: a thread for the next batch of the chunk.
Spawn ==
    /\ run_pc = "spawn"
    /\ threads' = ((spawned + 1) :> [level |-> level, batch |-> batches[spawned + 1],
                                     state |-> "ready", calls |-> 0,
                                     out |-> << >>]) @@ threads
    /\ handles' = Append(handles, spawned + 1)
    /\ spawned' = spawned + 1
    /\ run_pc' = IF \/ spawned + 1 = Len(batches)
                    \/ (spawned + 1) % at_least_one(config.parallel) = 0
                 THEN "join" ELSE "spawn"
    /\ UNCHANGED << config, old_index, stored_index, index_writes, requested,
                    ast_hash, index_calls, index_summary,
                    summaries, level, requests, request_qnames, batches, channel,
                    results, rpos, prompted, outcome, warned, topo_vars, res_vars, unit_vars >>

\* summarize_batch, lines 100-102: the handles of the chunk are joined in order.
Join ==
    /\ run_pc = "join"
    /\ joined(threads[Head(handles)])
    /\ handles' = Tail(handles)
    /\ run_pc' = IF Tail(handles) # << >> THEN "join"
                 ELSE IF spawned = Len(batches) THEN "collect" ELSE "spawn"
    /\ UNCHANGED << config, old_index, stored_index, index_writes, requested,
                    ast_hash, index_calls, index_summary,
                    summaries, level, requests, request_qnames, batches, spawned,
                    threads, channel, results, rpos, prompted, outcome, warned,
                    topo_vars, res_vars, unit_vars >>

\* summarize_batch, lines 105-108: drop(tx) and the results received.
Collect ==
    /\ run_pc = "collect"
    /\ senders_dropped(threads)
    /\ results' = channel
    /\ channel' = << >>
    /\ threads' = << >>
    /\ rpos' = 1
    /\ run_pc' = "results"
    /\ UNCHANGED << config, old_index, stored_index, index_writes, requested,
                    ast_hash, index_calls, index_summary,
                    summaries, level, requests, request_qnames, batches, spawned,
                    handles, prompted, outcome, warned, topo_vars, res_vars, unit_vars >>

\* process_batch, lines 119-125 and 153-154: the prompt of the batch goes to the LLM.
CallClaude(t) ==
    /\ threads[t].state = "ready"
    /\ threads' = [threads EXCEPT ![t].state = "calling",
                                   ![t].calls = threads[t].calls + 1]
    /\ prompted' = prompted \cup batch_funcs(threads[t].batch)
    /\ UNCHANGED << config, old_index, stored_index, index_writes, requested,
                    ast_hash, index_calls, index_summary,
                    run_pc, summaries, level, requests, request_qnames, batches,
                    spawned, handles, channel, results, rpos, outcome, warned,
                    topo_vars, res_vars, unit_vars >>

\* process_batch, lines 125-187: the call returns and the results are built.
ClaudeReturns(t) ==
    /\ threads[t].state = "calling"
    /\ \E response \in Responses(threads[t].batch) :
          /\ threads' = [threads EXCEPT
                           ![t].state = "sending",
                           ![t].out = process_batch(threads[t].batch, response)]
          /\ outcome' = [f \in Names |->
                           IF f \in batch_funcs(threads[t].batch)
                           THEN IF response.ok THEN "ok" ELSE "err"
                           ELSE outcome[f]]
    /\ UNCHANGED << config, old_index, stored_index, index_writes, requested,
                    ast_hash, index_calls, index_summary,
                    run_pc, summaries, level, requests, request_qnames, batches,
                    spawned, handles, channel, results, rpos, prompted, warned,
                    topo_vars, res_vars, unit_vars >>

\* summarize_batch, lines 92-95: the thread sends its next result, and ends after
\* the last one.
Send(t) ==
    /\ threads[t].state = "sending"
    /\ channel' = Append(channel, Head(threads[t].out))
    /\ threads' = [threads EXCEPT
                     ![t].out = Tail(threads[t].out),
                     ![t].state = IF Len(threads[t].out) = 1 THEN "done"
                                  ELSE "sending"]
    /\ UNCHANGED << config, old_index, stored_index, index_writes, requested,
                    ast_hash, index_calls, index_summary,
                    run_pc, summaries, level, requests, request_qnames, batches,
                    spawned, handles, results, rpos, prompted, outcome, warned,
                    topo_vars, res_vars, unit_vars >>

\* run_summarization, lines 357-389: the next result is written, a failure is
\* reported; after the last one the loop goes to the next level.
WriteResult ==
    /\ run_pc = "results"
    /\ LET result == results[rpos]
           qualified_name == request_qnames[result.id]
       IN IF result.summary # Failed
          THEN /\ summaries' = insert_summary(summaries, qualified_name, result.summary)
               /\ index_summary' = [index_summary EXCEPT
                                      ![qualified_name] = result.summary]
               /\ UNCHANGED warned
          ELSE /\ warned' = warned \cup { qualified_name }
               /\ UNCHANGED << summaries, index_summary >>
    /\ IF rpos = Len(results)
       THEN /\ level' = level + 1
            /\ run_pc' = after_level(level + 1)
       ELSE UNCHANGED << level, run_pc >>
    /\ rpos' = rpos + 1
    /\ UNCHANGED << config, old_index, stored_index, index_writes, requested,
                    ast_hash, index_calls, requests,
                    request_qnames, batches, spawned, handles, threads, channel,
                    results, prompted, outcome, topo_vars, res_vars, unit_vars >>

\* run, lines 133-146: index.json is written.
WriteIndex ==
    /\ run_pc = "write_index"
    /\ stored_index' = index_document(ast_hash, index_summary)
    /\ index_writes' = index_writes + 1
    /\ run_pc' = "done"
    /\ UNCHANGED << config, old_index, requested, ast_hash, index_calls, index_summary,
                    summaries, level, requests, request_qnames, batches, spawned,
                    handles, threads, channel, results, rpos, prompted, outcome,
                    warned, topo_vars, res_vars, unit_vars >>

NextRun ==
    \/ PreserveSummaries
    \/ StartSummarization
    \/ ComposeRequests
    \/ Spawn
    \/ Join
    \/ Collect
    \/ WriteResult
    \/ WriteIndex
    \/ \E t \in DOMAIN threads : CallClaude(t)
    \/ \E t \in DOMAIN threads : ClaudeReturns(t)
    \/ \E t \in DOMAIN threads : Send(t)

\* The first two functions differ in content; the last one has its own content
\* or that of the first. The old index holds at most MaxPrior functions.
Hashes == { h \in [Names -> Names] :
              /\ \A f \in Names \ { NumNames } : h[f] = f
              /\ h[NumNames] \in { 1, NumNames } }

OldIndexes ==
    { NoIndex } \cup
    { OldIndex(fs) : fs \in { old \in SUBSET PriorFunctions : Cardinality(old) <= MaxPrior } }

SpecRun ==
    /\ InitIndexRun(Configs, CallMaps, Hashes, OldIndexes)
    /\ [][NextRun]_vars

\* The summarizer on its own: a first index run with summaries, of functions
\* with at most one call between them, under every batch_size and parallel from
\* 0 on.
SummarizerConfigs == [summaries : { TRUE }, batch_size : 0..MaxBatchSize,
                      parallel : 0..MaxParallel]

FewCallMaps == { c \in CallMaps :
                   Cardinality({ e \in Names \X Names : e[2] \in c[e[1]] }) <= 1 }

InitSummarizer ==
    InitIndexRun(SummarizerConfigs, FewCallMaps, { [f \in Names |-> f] }, { NoIndex })

SpecSummarizer == InitSummarizer /\ [][NextRun]_vars

\* A re-index with summaries enabled. The old index holds every function under
\* its qualified name, with a summary of its own or none; since then a function
\* kept its content or changed it (hash 0 is a content that is gone).
prior_summary(f) == "summary of " \o ToString(f)

ReindexConfigs == { c \in Configs : c.summaries }

ReindexOldIndexes(hash) ==
    { OldIndex({ [qualified_name |-> f, ast_hash |-> oh[f], summary |-> os[f]] :
                 f \in Names }) :
        oh \in { h \in [Names -> 0..NumNames] : \A f \in Names : h[f] \in { 0, hash[f] } },
        os \in { m \in [Names -> { None } \cup { prior_summary(f) : f \in Names }] :
                   \A f \in Names : m[f] \in { None, prior_summary(f) } } }

InitReindex ==
    \E hash \in Hashes :
        InitIndexRun(ReindexConfigs, FewCallMaps, { hash }, ReindexOldIndexes(hash))

SpecReindex == InitReindex /\ [][NextRun]_vars

\* The process of the index run ends before run returns (a signal, a crash): its
\* threads end with it and nothing more is written. What the run had produced in
\* memory is kept in the state, to be compared with the document on disk.
Terminate ==
    /\ run_pc \notin { "off", "done", "terminated" }
    /\ run_pc' = "terminated"
    /\ threads' = << >>
    /\ handles' = << >>
    /\ channel' = << >>
    /\ UNCHANGED << config, old_index, stored_index, index_writes, requested,
                    ast_hash,
                    index_calls, index_summary, summaries, level, requests,
                    request_qnames, batches, spawned, results, rpos, prompted,
                    outcome, warned, topo_vars, res_vars, unit_vars >>

NextInterrupted ==
    \/ PreserveSummaries
    \/ StartSummarization
    \/ ComposeRequests
    \/ Spawn
    \/ Join
    \/ Collect
    \/ WriteResult
    \/ WriteIndex
    \/ Terminate
    \/ \E t \in DOMAIN threads : CallClaude(t)
    \/ \E t \in DOMAIN threads : ClaudeReturns(t)
    \/ \E t \in DOMAIN threads : Send(t)

\* An index run that can end at any point: with or without summaries, over any
\* old index, of functions with at most one call between them.
InitInterrupted == InitIndexRun(Configs, FewCallMaps, Hashes, OldIndexes)

SpecInterrupted == InitInterrupted /\ [][NextInterrupted]_vars

\* The summarizer with its scheduling: the thread of summarize_batch goes on when
\* it can (spawn, a join whose thread has ended, the receive loop once every
\* sender is dropped), a worker thread that can run does run, and every LLM call
\* returns.
FairSummarizer ==
    /\ WF_vars(Spawn)
    /\ WF_vars(Join)
    /\ WF_vars(Collect)
    /\ WF_vars(\E t \in DOMAIN threads : CallClaude(t))
    /\ WF_vars(\E t \in DOMAIN threads : ClaudeReturns(t))
    /\ WF_vars(\E t \in DOMAIN threads : Send(t))

SpecSummarizerFair == InitSummarizer /\ [][NextRun]_vars /\ FairSummarizer

\* ------------------------------------------ the load of the index document

\* env!("CARGO_PKG_VERSION"), the version Index::new writes into a document.
CARGO_PKG_VERSION == "current"

\* The versions a stored document can carry: that of this program or that of
\* another release.
Versions == { CARGO_PKG_VERSION, "other" }

\* The fields of the Index struct; Deserialize requires every one of them.
IndexFields == { "version", "commit", "indexed_at", "files" }

\* .aria/index.json when it does not exist.
NoDocument == [exists |-> FALSE, fields |-> {}, version |-> "", functions |-> {}]

\* The documents index.json can hold: every field of Index or all but one, the
\* version any string, the functions of the files each an [ast_hash, summary].
Documents ==
    { NoDocument } \cup
    { [exists |-> TRUE, fields |-> fields, version |-> v, functions |-> fs] :
        fields \in { IndexFields } \cup { IndexFields \ { x } : x \in IndexFields },
        v \in Versions \cup { "" },
        fs \in { old \in SUBSET PriorFunctions : Cardinality(old) <= MaxPrior } }

\* The documents in which the fields that are missing have no value.
WellReadDocuments ==
    { doc \in Documents :
        /\ ("version" \in doc.fields) = (doc.version \in Versions)
        /\ "files" \notin doc.fields => doc.functions = {} }

\* Option::None, or the Err that ended the command: no Index.
NoLoadedIndex == [loaded |-> FALSE, version |-> "", functions |-> {}]

\* fs::read_to_string: Ok with the content when the file exists.
read_to_string(doc) == doc.exists

\* serde_json::from_str::<Index>: Ok with the Index of the document when every
\* field of the struct is there; the version is a String, taken as it is.
from_str(doc) ==
    IF IndexFields \subseteq doc.fields
    THEN [ok |-> TRUE,
          index |-> [loaded |-> TRUE, version |-> doc.version,
                     functions |-> doc.functions]]
    ELSE [ok |-> FALSE, index |-> NoLoadedIndex]

\* The load of query, search, embed and diff: Err when the file cannot be read
\* or parsed.
load_index(doc) ==
    IF read_to_string(doc) /\ from_str(doc).ok
    THEN [ok |-> TRUE, index |-> from_str(doc).index]
    ELSE [ok |-> FALSE, index |-> NoLoadedIndex]

\* load_existing_index of the index command: None when the file cannot be read
\* or parsed.
load_existing_index(doc) ==
    IF read_to_string(doc) /\ from_str(doc).ok
    THEN from_str(doc).index
    ELSE NoLoadedIndex

\* A state directory with any document, before a command runs.
InitLoad ==
    /\ index_json \in WellReadDocuments
    /\ cmd = "none"
    /\ cmd_index = NoLoadedIndex
    /\ cmd_exit = "none"
    /\ TopoOff /\ ResolverOff /\ RunOff /\ ParseOff /\ StoreOff /\ QueryOff

\* aria index: run, line 28; the run goes on with Some(index) or None.
IndexCommand ==
    /\ cmd = "none"
    /\ cmd' = "index"
    /\ cmd_index' = load_existing_index(index_json)
    /\ cmd_exit' = "continues"
    /\ UNCHANGED << index_json, topo_vars, res_vars, run_vars, parse_vars,
                    store_vars, query_vars >>

\* aria query: run, lines 59-65, load_index; Err ends the command with
\* ExitCode::FAILURE.
QueryCommand ==
    /\ cmd = "none"
    /\ cmd' = "query"
    /\ cmd_index' = load_index(index_json).index
    /\ cmd_exit' = IF load_index(index_json).ok THEN "continues" ELSE "FAILURE"
    /\ UNCHANGED << index_json, topo_vars, res_vars, run_vars, parse_vars,
                    store_vars, query_vars >>

\* aria search: run, lines 34-48.
SearchCommand ==
    /\ cmd = "none"
    /\ cmd' = "search"
    /\ cmd_index' = load_index(index_json).index
    /\ cmd_exit' = IF load_index(index_json).ok THEN "continues" ELSE "FAILURE"
    /\ UNCHANGED << index_json, topo_vars, res_vars, run_vars, parse_vars,
                    store_vars, query_vars >>

\* aria embed: run, lines 19-33.
EmbedCommand ==
    /\ cmd = "none"
    /\ cmd' = "embed"
    /\ cmd_index' = load_index(index_json).index
    /\ cmd_exit' = IF load_index(index_json).ok THEN "continues" ELSE "FAILURE"
    /\ UNCHANGED << index_json, topo_vars, res_vars, run_vars, parse_vars,
                    store_vars, query_vars >>

\* aria diff: run, lines 19-33.
DiffCommand ==
    /\ cmd = "none"
    /\ cmd' = "diff"
    /\ cmd_index' = load_index(index_json).index
    /\ cmd_exit' = IF load_index(index_json).ok THEN "continues" ELSE "FAILURE"
    /\ UNCHANGED << index_json, topo_vars, res_vars, run_vars, parse_vars,
                    store_vars, query_vars >>

NextLoad ==
    \/ IndexCommand
    \/ QueryCommand
    \/ SearchCommand
    \/ EmbedCommand
    \/ DiffCommand

SpecLoad == InitLoad /\ [][NextLoad]_vars

\* ---------------------------------------------- query trace, query usages

\* The target of a call site that was not resolved, "[unresolved]"; the
\* qualified names are 1..NumNames. It also stands for the None of a find.
UnresolvedTarget == 0

\* usize::MAX, as the largest integer of the model checker.
usize_MAX == 2147483647

\* run, lines 71 and 75: --depth 0 is no limit.
max_depth(depth) == IF depth = 0 THEN usize_MAX ELSE depth

\* A line of the output: what is printed (target, caller, root, no_callers at
\* the top level; node, cycle, unresolved, external by the recursion), the name,
\* and the level it is printed at (the current_depth of the recursion).
Line(kind, name, depth) == [kind |-> kind, name |-> name, depth |-> depth]

\* A visited set that knows no name.
on_path_never(visited, name) == FALSE

\* HashSet::contains on visited.
on_path(visited, name) == name \in visited

\* build_caller_chain, lines 236-237: the first caller that is not visited,
\* UnresolvedTarget for None.
find_unvisited(callers, visited) ==
    LET rest == SelectSeq(callers, LAMBDA name : ~on_path(visited, name))
    IN IF rest = << >> THEN UnresolvedTarget ELSE rest[1]

\* build_caller_chain, line 252, and query_trace, lines 192-204: the chain from
\* the root down, or [root], and then the target.
chain_lines(chain, target) ==
    (IF chain = << >> THEN << Line("root", UnresolvedTarget, 0) >>
     ELSE [k \in 1..Len(chain) |-> Line("caller", chain[Len(chain) + 1 - k], k - 1)])
    \o << Line("target", target, Len(chain)) >>

\* One step of print_trace_level (trace) or print_usages_callers: the innermost
\* frame returns when it is deeper than max_depth or its for loop is over, and
\* the caller removes it from visited; else it handles the next element of list.
print_step(stack, visited, output, list, limit, funcs, trace) ==
    LET top == stack[Len(stack)]
        advanced == [stack EXCEPT ![Len(stack)].i = top.i + 1]
    IN IF top.depth > limit \/ top.i > Len(list)
       THEN [stack |-> SubSeq(stack, 1, Len(stack) - 1),
             visited |-> IF Len(stack) > 1 THEN visited \ { top.func } ELSE visited,
             output |-> output]
       ELSE LET target == list[top.i]
            IN IF trace /\ target = UnresolvedTarget
               THEN [stack |-> advanced, visited |-> visited,
                     output |-> Append(output, Line("unresolved", target, top.depth))]
               ELSE IF target \in funcs
               THEN IF on_path(visited, target)
                    THEN [stack |-> advanced, visited |-> visited,
                          output |-> Append(output, Line("cycle", target, top.depth))]
                    ELSE [stack |-> Append(advanced, [func |-> target,
                                                      depth |-> top.depth + 1,
                                                      i |-> 1]),
                          visited |-> visited \cup { target },
                          output |-> Append(output, Line("node", target, top.depth))]
               ELSE [stack |-> advanced, visited |-> visited,
                     output |-> Append(output, Line("external", target, top.depth))]

\* The call sites of one function: at most MaxCallSites targets, each a name or
\* "[unresolved]".
CallLists ==
    UNION { [1..n -> Names \cup { UnresolvedTarget }] : n \in 0..MaxCallSites }

\* The call sites of an index: at most MaxEdges in all.
QueryCalls ==
    { c \in [Names -> CallLists] :
        Len(c[1]) + Len(Flatten([k \in 1..(NumNames - 1) |-> c[k + 1]])) <= MaxEdges }

\* The called_by resolve writes: the callers of a function, sorted, each once.
query_called_by(c) ==
    [v \in Names |-> SortedSeq({ f \in Names : v \in Range(c[f]) })]

\* An index and a command line. The index holds every name, or all but the last
\* (which is then a target and a caller the index does not hold).
InitQuery ==
    /\ q_functions \in { Names, Names \ { NumNames } }
    /\ q_calls \in QueryCalls
    /\ q_called_by = query_called_by(q_calls)
    /\ q_cmd \in { "trace", "trace_callers", "usages" }
    /\ q_name \in q_functions
    /\ q_depth \in 0..MaxDepth
    /\ q_pc = "start"
    /\ q_chain = << >> /\ q_current = UnresolvedTarget /\ q_chain_visited = {}
    /\ q_stack = << >> /\ q_visited = {} /\ q_output = << >>
    /\ TopoOff /\ ResolverOff /\ RunOff /\ ParseOff /\ StoreOff /\ LoadOff

\* query_trace without --callers, lines 210-214: the target is printed and the
\* recursion begins.
QueryTrace ==
    /\ q_pc = "start" /\ q_cmd = "trace"
    /\ q_output' = << Line("target", q_name, 0) >>
    /\ q_visited' = { q_name }
    /\ q_stack' = << [func |-> q_name, depth |-> 1, i |-> 1] >>
    /\ q_pc' = "print"
    /\ UNCHANGED << q_functions, q_calls, q_called_by, q_cmd, q_name, q_depth,
                    q_chain, q_current, q_chain_visited,
                    topo_vars, res_vars, run_vars, parse_vars, store_vars, load_vars >>

\* query_trace with --callers, line 190, and build_caller_chain, lines 225-232:
\* a target without callers has an empty chain, else the loop begins.
QueryTraceCallers ==
    /\ q_pc = "start" /\ q_cmd = "trace_callers"
    /\ IF q_called_by[q_name] = << >>
       THEN /\ q_output' = chain_lines(<< >>, q_name)
            /\ q_visited' = { q_name }
            /\ q_stack' = << [func |-> q_name, depth |-> 1, i |-> 1] >>
            /\ q_pc' = "print"
            /\ UNCHANGED << q_current, q_chain_visited >>
       ELSE /\ q_current' = q_name
            /\ q_chain_visited' = { q_name }
            /\ q_pc' = "chain"
            /\ UNCHANGED << q_output, q_visited, q_stack >>
    /\ UNCHANGED << q_functions, q_calls, q_called_by, q_cmd, q_name, q_depth,
                    q_chain,
                    topo_vars, res_vars, run_vars, parse_vars, store_vars, load_vars >>

\* build_caller_chain, lines 234-250: one turn of the while loop; when the loop
\* ends, query_trace prints the chain and the target and the recursion begins.
ChainStep ==
    /\ q_pc = "chain"
    /\ LET caller_name == find_unvisited(q_called_by[q_current], q_chain_visited)
       IN IF /\ q_called_by[q_current] # << >>
             /\ caller_name # UnresolvedTarget
             /\ caller_name \in q_functions
          THEN /\ q_chain_visited' = q_chain_visited \cup { caller_name }
               /\ q_chain' = Append(q_chain, caller_name)
               /\ q_current' = caller_name
               /\ UNCHANGED << q_pc, q_output, q_visited, q_stack >>
          ELSE /\ q_output' = chain_lines(q_chain, q_name)
               /\ q_visited' = { q_name }
               /\ q_stack' = << [func |-> q_name, depth |-> 1, i |-> 1] >>
               /\ q_pc' = "print"
               /\ UNCHANGED << q_chain, q_current, q_chain_visited >>
    /\ UNCHANGED << q_functions, q_calls, q_called_by, q_cmd, q_name, q_depth,
                    topo_vars, res_vars, run_vars, parse_vars, store_vars, load_vars >>

\* query_usages, lines 401-426: the target is printed; without callers the
\* command ends, else the recursion begins.
QueryUsages ==
    /\ q_pc = "start" /\ q_cmd = "usages"
    /\ IF q_called_by[q_name] = << >>
       THEN /\ q_output' = << Line("target", q_name, 0),
                              Line("no_callers", q_name, 0) >>
            /\ q_pc' = "done"
            /\ UNCHANGED << q_visited, q_stack >>
       ELSE /\ q_output' = << Line("target", q_name, 0) >>
            /\ q_visited' = { q_name }
            /\ q_stack' = << [func |-> q_name, depth |-> 1, i |-> 1] >>
            /\ q_pc' = "print"
    /\ UNCHANGED << q_functions, q_calls, q_called_by, q_cmd, q_name, q_depth,
                    q_chain, q_current, q_chain_visited,
                    topo_vars, res_vars, run_vars, parse_vars, store_vars, load_vars >>

\* print_trace_level: the next step of the recursion over the calls.
TraceStep ==
    /\ q_pc = "print" /\ q_cmd \in { "trace", "trace_callers" }
    /\ LET next == print_step(q_stack, q_visited, q_output,
                              q_calls[q_stack[Len(q_stack)].func],
                              max_depth(q_depth), q_functions, TRUE)
       IN /\ q_stack' = next.stack
          /\ q_visited' = next.visited
          /\ q_output' = next.output
          /\ q_pc' = IF next.stack = << >> THEN "done" ELSE "print"
    /\ UNCHANGED << q_functions, q_calls, q_called_by, q_cmd, q_name, q_depth,
                    q_chain, q_current, q_chain_visited,
                    topo_vars, res_vars, run_vars, parse_vars, store_vars, load_vars >>

\* print_usages_callers: the next step of the recursion over called_by.
UsagesStep ==
    /\ q_pc = "print" /\ q_cmd = "usages"
    /\ LET next == print_step(q_stack, q_visited, q_output,
                              q_called_by[q_stack[Len(q_stack)].func],
                              max_depth(q_depth), q_functions, FALSE)
       IN /\ q_stack' = next.stack
          /\ q_visited' = next.visited
          /\ q_output' = next.output
          /\ q_pc' = IF next.stack = << >> THEN "done" ELSE "print"
    /\ UNCHANGED << q_functions, q_calls, q_called_by, q_cmd, q_name, q_depth,
                    q_chain, q_current, q_chain_visited,
                    topo_vars, res_vars, run_vars, parse_vars, store_vars, load_vars >>

NextQuery ==
    \/ QueryTrace
    \/ QueryTraceCallers
    \/ ChainStep
    \/ QueryUsages
    \/ TraceStep
    \/ UsagesStep

\* The command is one thread: it takes its next step as long as it has one.
SpecQuery == InitQuery /\ [][NextQuery]_vars /\ WF_vars(NextQuery)

\* ------------------------------------------------- claims on the index run

\* The level of the code a function is at is levels[f]; the loop is at level
\* level - 1 of the code.
BelowCurrent(f) == levels[f] + 1 < level

\* The requests of the level are composed and the level is not finished.
LevelOpen == run_pc \in { "spawn", "join", "collect", "results" }

\* The callees a request carries a summary of.
ContextCallees(req) ==
    { req.callee_context[k][1] : k \in DOMAIN req.callee_context }

\* The resolved callees of a function at a level below its own.
LowerCallees(f) == { v \in index_calls[f] : levels[v] < levels[f] }

\* C2, as the specification states it: every request composed for a function
\* carries the summary of every resolved callee of the function that lies at a
\* lower level.
C2_CalleesSummarized ==
    LevelOpen =>
        \A k \in DOMAIN requests :
            LowerCallees(requests[k].func) \subseteq ContextCallees(requests[k])

\* C2, amended: every request composed for a function carries the summary of
\* every resolved callee at a lower level, except the callees whose own
\* summarization failed and was reported at their level.
C2_CalleesSummarizedOrFailed ==
    LevelOpen =>
        \A k \in DOMAIN requests :
            \A v \in LowerCallees(requests[k].func) :
                \/ v \in ContextCallees(requests[k]) /\ v \in DOMAIN summaries
                \/ v \in warned /\ outcome[v] = "err"

\* A request of a caller is composed with one lower callee summarized by the LLM
\* in this run and another one failed.
C2_Witness ==
    /\ LevelOpen
    /\ \E k \in DOMAIN requests :
          /\ \E v \in LowerCallees(requests[k].func) :
                v \in ContextCallees(requests[k]) /\ outcome[v] = "ok"
          /\ \E v \in LowerCallees(requests[k].func) : v \in warned

\* The summarization of a function requested at a lower level is over: its batch
\* has returned and its result, when there is one, is in the summaries map and in
\* the index.
Settled(f) ==
    /\ f \in prompted => outcome[f] # "none"
    /\ outcome[f] = "ok" =>
          /\ f \in DOMAIN summaries
          /\ index_summary[f] # None
          /\ summaries[f] = index_summary[f]
    /\ outcome[f] = "err" => f \in warned

\* C3: while the requests of a level are composed and its batches run, no thread
\* of another level exists, no result of another level is in flight, and every
\* function of a lower level is settled.
C3_LevelBarrier ==
    /\ \A t \in DOMAIN threads : threads[t].level = level
    /\ run_pc \in { "level", "spawn", "join", "collect", "results" } =>
          \A f \in Names : BelowCurrent(f) => Settled(f)
    /\ run_pc = "level" => channel = << >> /\ threads = << >>

\* A batch of the third level runs after a function of the first level was
\* summarized and one of the second level failed.
C3_Witness ==
    /\ level = 3
    /\ \E t \in DOMAIN threads : threads[t].state = "calling"
    /\ \E f \in Names : levels[f] = 0 /\ outcome[f] = "ok"
    /\ \E f \in Names : levels[f] = 1 /\ outcome[f] = "err"

\* The summaries the old index holds for the content of a function.
PriorSummaries(f) ==
    { q.summary : q \in { o \in old_index.functions :
                            o.ast_hash = ast_hash[f] /\ o.summary # None } }

\* C4, as the specification states it: after the run a function carries the
\* summary of every function of the old index with the same content hash, and
\* no LLM request was issued for it.
C4_CarryForward ==
    run_pc = "done" =>
        \A f \in Names : \A s \in PriorSummaries(f) :
            index_summary[f] = s /\ f \notin prompted

\* C4, amended: after the run a function whose content hash is that of functions
\* of the old index with a summary carries the summary of one of them, and no
\* LLM request was issued for it.
C4_CarryForwardOfOne ==
    run_pc = "done" =>
        \A f \in Names :
            PriorSummaries(f) # {} =>
                index_summary[f] \in PriorSummaries(f) /\ f \notin prompted

\* A run with summaries ends with one function carried forward, two functions of
\* the same content among them, and another function summarized by the LLM.
C4_Witness ==
    /\ run_pc = "done"
    /\ config.summaries
    /\ \E f, g \in Names :
          /\ f # g /\ ast_hash[f] = ast_hash[g]
          /\ index_summary[f] \in PriorSummaries(f)
          /\ index_summary[g] = index_summary[f]
    /\ \E f \in Names : f \in prompted /\ index_summary[f] = Generated

\* C11: a failed LLM call gives every request of its batch, and no other request,
\* an error result; every request of the level has one result; and a run with
\* summaries ends with the failed functions reported and without a summary, every
\* function whose call succeeded with its summary in the index, and no function
\* left out: one that was never requested had its summary carried forward.
C11_FailureIsolation ==
    /\ run_pc = "results" =>
          /\ Len(results) = Len(requests)
          /\ { results[k].id : k \in DOMAIN results } = DOMAIN requests
          /\ \A k \in DOMAIN results :
                results[k].summary = Failed <=>
                    outcome[request_qnames[results[k].id]] = "err"
    /\ (run_pc = "done" /\ config.summaries) =>
          \A f \in Names :
              /\ outcome[f] = "err" => index_summary[f] = None /\ f \in warned
              /\ outcome[f] = "ok" => index_summary[f] \in { Generated, Placeholder }
              /\ outcome[f] = "none" => index_summary[f] \in PriorSummaries(f)

\* A run ends after a batch of two functions failed, with a function of a later
\* level summarized.
C11_Witness ==
    /\ run_pc = "done"
    /\ config.summaries
    /\ at_least_one(config.batch_size) = 2
    /\ \E f, g, h \in Names :
          /\ f # g /\ levels[f] = levels[g] /\ levels[h] > levels[f]
          /\ outcome[f] = "err" /\ outcome[g] = "err"
          /\ index_summary[f] = None /\ index_summary[g] = None
          /\ outcome[h] = "ok" /\ index_summary[h] = Generated

\* The batches whose thread has not ended, and those whose LLM call is running.
InFlight == { t \in DOMAIN threads : threads[t].state # "done" }

Calling == { t \in DOMAIN threads : threads[t].state = "calling" }

\* C12: at every moment at most parallel batches are in flight, parallel being
\* the configured value raised to at least 1.
C12_ParallelLimit ==
    /\ Cardinality(InFlight) <= at_least_one(config.parallel)
    /\ Cardinality(Calling) <= at_least_one(config.parallel)

\* With parallel 2 two calls are running at once while a third batch waits for
\* the chunk to be joined.
C12_Witness ==
    /\ config.parallel = 2
    /\ Cardinality(Calling) = 2
    /\ Len(batches) = 3 /\ spawned = 2

\* The entry the old index holds for a function of the new index.
PriorEntry(f) == CHOOSE q \in old_index.functions : q.qualified_name = f

\* The content hash of the function changed since the old index was written.
Changed(f) == PriorEntry(f).ast_hash # ast_hash[f]

\* C13, as the specification states it: after a re-index with summaries the
\* functions that appeared in a request are exactly the changed ones, an
\* unchanged function carries its prior summary, and a changed one does not.
C13_ExactlyChanged ==
    run_pc = "done" =>
        \A f \in Names :
            /\ f \in prompted <=> Changed(f)
            /\ ~Changed(f) => index_summary[f] = PriorEntry(f).summary
            /\ Changed(f) => index_summary[f] \in { None, Generated, Placeholder }

\* C13, amended: after a re-index with summaries the functions that appeared in
\* a request are exactly those whose content hash is not the hash of a function
\* of the old index with a summary. A function whose hash is such a hash carries
\* the summary of one of these old functions, its own prior summary when no
\* other one has that hash; every other function carries no prior summary.
C13_ExactlyUncached ==
    run_pc = "done" =>
        \A f \in Names :
            /\ f \in prompted <=> PriorSummaries(f) = {}
            /\ PriorSummaries(f) # {} => index_summary[f] \in PriorSummaries(f)
            /\ PriorSummaries(f) = { PriorEntry(f).summary } =>
                  index_summary[f] = PriorEntry(f).summary
            /\ PriorSummaries(f) = {} =>
                  index_summary[f] \in { None, Generated, Placeholder }

\* A re-index ends with an unchanged caller that kept its summary and was in no
\* request, and its changed callee summarized again.
C13_Witness ==
    /\ run_pc = "done"
    /\ \E f, g \in Names :
          /\ g \in index_calls[f] /\ f # g
          /\ ~Changed(f) /\ index_summary[f] = prior_summary(f) /\ f \notin prompted
          /\ Changed(g) /\ PriorEntry(g).summary # None
          /\ g \in prompted /\ index_summary[g] = Generated

\* summarize_batch has split the requests of the level and has not returned.
InSummarizeBatch == run_pc \in { "spawn", "join", "collect" }

\* C23: while summarize_batch is at work on n >= 1 requests with batch_size b
\* (a configured value below 1 counts as 1), there are ceil(n / b) batches, the
\* batches put end to end are the requests in their order, every batch but the
\* last has b requests and the last has from 1 to b; no batch gets a second LLM
\* call, and once every thread is joined every batch got one.
C23_Batches ==
    InSummarizeBatch =>
        LET n == Len(requests)
            b == IF config.batch_size < 1 THEN 1 ELSE config.batch_size
            count == Len(batches)
        IN /\ n >= 1
           /\ count * b >= n /\ (count - 1) * b < n
           /\ Flatten(batches) = requests
           /\ \A k \in 1..(count - 1) : Len(batches[k]) = b
           /\ Len(batches[count]) \in 1..b
           /\ \A t \in DOMAIN threads :
                 /\ t \in 1..count
                 /\ threads[t].batch = batches[t]
                 /\ threads[t].calls <= 1
           /\ run_pc = "collect" =>
                 /\ DOMAIN threads = 1..count
                 /\ \A t \in 1..count : threads[t].calls = 1

\* Three requests with batch_size 2: a batch of two and a batch of one, each
\* with its one call made and its thread joined.
C23_Witness ==
    /\ run_pc = "collect"
    /\ Len(requests) = 3 /\ config.batch_size = 2
    /\ Len(batches) = 2 /\ Len(batches[1]) = 2 /\ Len(batches[2]) = 1
    /\ \A t \in 1..2 : threads[t].calls = 1

\* The state of the summary of a function in a run, read off the index, the
\* requests made and the failures reported.
SummaryState(sm, req, wn, f) ==
    IF sm[f] # None
    THEN IF sm[f] \in { Generated, Placeholder } THEN "Present" ELSE "Preserved"
    ELSE IF f \in wn THEN "Errored"
    ELSE IF req[f] >= 1 THEN "Requested"
    ELSE "Missing"

\* The steps a summary can take: it stays as it is, or Missing -> Preserved,
\* Missing -> Requested, Requested -> Present, Requested -> Errored.
SummarySteps ==
    { << st, st >> : st \in { "Missing", "Preserved", "Requested", "Present", "Errored" } }
    \cup { << "Missing", "Preserved" >>, << "Missing", "Requested" >>,
           << "Requested", "Present" >>, << "Requested", "Errored" >> }

\* C25: in every step of a run every function stays in its state or moves
\* Missing -> Preserved, Missing -> Requested, Requested -> Present or
\* Requested -> Errored; a preserved summary is not changed and its function gets
\* no request, a summary that is present is not changed, and no function gets a
\* second request.
C25_Lifecycle ==
    [][ run_pc # "off" =>
          \A f \in Names :
             LET before == SummaryState(index_summary, requested, warned, f)
                 after == SummaryState(index_summary', requested', warned', f)
             IN /\ << before, after >> \in SummarySteps
                /\ requested'[f] <= 1
                /\ before \in { "Preserved", "Present" } =>
                      /\ index_summary'[f] = index_summary[f]
                      /\ requested'[f] = requested[f]
                /\ after = "Preserved" => requested'[f] = 0 /\ f \notin prompted'
                /\ before \in { "Present", "Errored" } => requested'[f] = requested[f] ]_vars

\* The end of a run in which one function kept a preserved summary and was never
\* requested, one got its summary from its one request and one has none after
\* its one request failed.
C25_Witness ==
    /\ run_pc = "done"
    /\ \E f, g, h \in Names :
          /\ SummaryState(index_summary, requested, warned, f) = "Preserved"
          /\ requested[f] = 0
          /\ SummaryState(index_summary, requested, warned, g) = "Present"
          /\ requested[g] = 1
          /\ SummaryState(index_summary, requested, warned, h) = "Errored"
          /\ requested[h] = 1

\* C27: the results summarize_batch returned are one for every request it was
\* given, each id of a request once and no other id, whatever the order the
\* batches finished in and however their calls ended; the function a result is
\* attributed to is the one its request was built for: its result is an error
\* exactly when the call of its batch failed, and a result that has been handled
\* is the summary of that function in the index or a reported failure of it.
C27_OneResultPerRequest ==
    run_pc = "results" =>
        /\ Len(results) = Len(requests)
        /\ \A id \in 1..Len(requests) :
              Cardinality({ k \in DOMAIN results : results[k].id = id }) = 1
        /\ \A k \in DOMAIN results :
              /\ results[k].id \in 1..Len(requests)
              /\ LET func == requests[results[k].id].func
                 IN /\ request_qnames[results[k].id] = func
                    /\ (results[k].summary = Failed) = (outcome[func] = "err")
                    /\ k < rpos =>
                          IF results[k].summary = Failed
                          THEN func \in warned /\ index_summary[func] = None
                          ELSE index_summary[func] = results[k].summary

\* Three requests in two batches: the results came back in another order than
\* the requests, one batch failed and the other did not.
C27_Witness ==
    /\ run_pc = "results"
    /\ Len(requests) = 3 /\ Len(batches) = 2
    /\ results[1].id # 1
    /\ \E k \in DOMAIN results : results[k].summary = Failed
    /\ \E k \in DOMAIN results : results[k].summary = Generated

\* C28: when every LLM call returns and the threads are scheduled, a call of
\* summarize_batch returns; once every handle is joined no worker thread runs and
\* every result is in the channel, and when the call has returned the channel is
\* empty and no thread is left.
C28_Returns ==
    /\ InSummarizeBatch ~> (run_pc = "results")
    /\ [](run_pc = "collect" =>
            /\ \A t \in DOMAIN threads : threads[t].state = "done"
            /\ Len(channel) = Len(requests))
    /\ [](run_pc = "results" => threads = << >> /\ channel = << >>)

\* summarize_batch has returned the results of three batches that ran in two
\* rounds of at most two threads.
C28_Witness ==
    /\ run_pc = "results"
    /\ config.parallel = 2
    /\ Len(batches) = 3
    /\ Len(results) = 3

\* The summaries an LLM call of this run can have produced.
Produced == { Generated, Placeholder }

\* The functions the requests of the current level are for.
RequestedNow == Range(request_qnames)

\* The callee context C29 expects for a function of the current level: the
\* summaries of its resolved callees that are not of this level's requests.
ContextBeforeLevel(f) ==
    { << c, index_summary[c] >> :
        c \in { t \in index_calls[f] : t \notin RequestedNow /\ index_summary[t] # None } }

\* C29: from the first thread of a level to its last result, the requests are
\* those of every function of the level without a summary, composed before any
\* thread existed; until summarize_batch has returned neither the summaries map
\* nor the index holds a summary of a function of the level; and the callee
\* context of every request is made of the summaries of the callees outside the
\* level's requests, whatever the threads have done so far.
C29_ContextBeforeLevel ==
    (InSummarizeBatch \/ run_pc = "results") =>
        /\ RequestedNow \subseteq Range(groups[level])
        /\ \A f \in Range(groups[level]) :
              f \in RequestedNow \/ (f \in DOMAIN summaries /\ index_summary[f] # None)
        /\ \A t \in DOMAIN threads : threads[t].level = level
        /\ InSummarizeBatch =>
              \A f \in RequestedNow : f \notin DOMAIN summaries /\ index_summary[f] = None
        /\ \A k \in DOMAIN requests :
              /\ requests[k].func = request_qnames[k]
              /\ Range(requests[k].callee_context) = ContextBeforeLevel(requests[k].func)
              /\ Len(requests[k].callee_context)
                    = Cardinality(ContextBeforeLevel(requests[k].func))

\* A level of two functions that call each other and a function of a lower
\* level that one of them calls: the first result of the level is written, and
\* the context of the requests is the summary of the lower function alone.
C29_Witness ==
    /\ run_pc = "results" /\ rpos = 2
    /\ Len(requests) = 2
    /\ request_qnames[1] \in index_calls[request_qnames[2]]
    /\ request_qnames[2] \in index_calls[request_qnames[1]]
    /\ \E f \in RequestedNow : index_summary[f] \in Produced
    /\ \E k \in DOMAIN requests :
          /\ Len(requests[k].callee_context) = 1
          /\ requests[k].callee_context[1][1] \notin RequestedNow

\* C24: the run writes index.json once, as its last step: until then, and when
\* the process ended before, the document on disk is the one the run loaded and
\* holds no summary produced in the run; the one write comes after the summaries
\* were preserved and after every level has completed (no thread is left, and
\* with summaries enabled every function has a summary or a reported failure),
\* and writes the index as it is then.
C24_WrittenOnceAtEnd ==
    run_pc # "off" =>
        /\ index_writes = IF run_pc = "done" THEN 1 ELSE 0
        /\ run_pc # "done" =>
              /\ stored_index = old_index
              /\ \A q \in stored_index.functions : q.summary \notin Produced
        /\ run_pc = "done" =>
              /\ stored_index = index_document(ast_hash, index_summary)
              /\ threads = << >> /\ channel = << >>
              /\ config.summaries =>
                    \A f \in Names : index_summary[f] # None \/ f \in warned

\* The process ended after a level had produced a summary, over an old index
\* that holds a summary.
C24_Witness ==
    /\ run_pc = "terminated"
    /\ level >= 2
    /\ \E f \in Names : index_summary[f] \in Produced
    /\ \E q \in old_index.functions : q.summary # None

\* ------------------------------------------ claims on parse_batch_response

\* The lines of the response that start with the marker of position k.
MarkerLines(k) ==
    { i \in DOMAIN pb_response :
        pb_response[i] # << >> /\ pb_response[i][1] = marker(k) }

\* A line without its first piece and without the whitespace at both ends.
Remainder(line) ==
    LET rest == SubSeq(line, 2, Len(line))
        solid == { i \in DOMAIN rest : rest[i] # Whitespace }
    IN IF solid = {} THEN << >>
       ELSE SubSeq(rest, CHOOSE i \in solid : \A j \in solid : i <= j,
                         CHOOSE i \in solid : \A j \in solid : i >= j)

\* C14: every call returns one result per request, in request order and with the
\* id of the request, all Ok; the summary of position k is the trimmed remainder
\* of the first line that starts with "[k]:", or the placeholder of k when no
\* line does; a second call returns what the first one did. The markers the
\* index run hands to its parse_batch_response give a placeholder for the same
\* positions.
C14_ParseBatchResponse ==
    /\ \A c \in DOMAIN pb_results :
          /\ Len(pb_results[c]) = Len(pb_batch)
          /\ \A k \in DOMAIN pb_batch :
                /\ pb_results[c][k].id = pb_batch[k].id
                /\ pb_results[c][k].ok
                /\ pb_results[c][k].summary =
                      IF MarkerLines(k) = {} THEN << placeholder(k) >>
                      ELSE Remainder(pb_response[CHOOSE i \in MarkerLines(k) :
                                                   \A j \in MarkerLines(k) : i <= j])
                /\ (parse_batch_response(pb_batch,
                        response_markers(pb_batch, pb_response))[k].summary = Placeholder)
                      <=> MarkerLines(k) = {}
    /\ Len(pb_results) = 2 => pb_results[1] = pb_results[2]

\* Parsed twice: a response with two lines for the first request, the first of
\* them with whitespace before its text, and no line for the second request; the
\* batch is not the first of its level.
C14_Witness ==
    /\ Len(pb_results) = 2
    /\ Cardinality(MarkerLines(1)) = 2
    /\ pb_response[1] = << marker(1), Whitespace, "text" >>
    /\ pb_results[2][1].summary = << "text" >>
    /\ pb_results[2][2].summary = << placeholder(2) >>
    /\ pb_batch[1].id # 1

\* ----------------------------------------------- claims on the embedding store

\* Every vector of a store has EMBEDDING_DIM elements.
WellFormed(store) == \A n \in DOMAIN store : Len(store[n]) = EMBEDDING_DIM

\* A process has loaded the directory, and the last operation on the files was a
\* save that returned.
LoadedAfterSave ==
    emb_result.op = "load" /\ emb_before.op = "save" /\ emb_before.done

\* C15: a load that follows a save succeeds and returns the keys and the vectors
\* of the store that was saved, and the binary file holds count * EMBEDDING_DIM * 4
\* bytes.
C15_RoundTrip ==
    LoadedAfterSave =>
        /\ emb_result.ok
        /\ emb_store = emb_before.store
        /\ Len(bin_file.data) =
              Cardinality(DOMAIN emb_before.store) * EMBEDDING_DIM * 4

\* The lines of embeddings.idx and the size of embeddings.bin; a file that does
\* not exist has none.
IdxLines == IF idx_file.exists THEN idx_file.data ELSE << >>

BinSize == IF bin_file.exists THEN Len(bin_file.data) ELSE 0

\* C16: a load of a directory whose binary file has not lines * EMBEDDING_DIM * 4
\* bytes returns an error and no store; a load that returns a store returns one
\* entry for every name of the index file, with the values of its own chunk.
C16_LoadChecksSize ==
    emb_result.op = "load" =>
        /\ BinSize # Len(IdxLines) * EMBEDDING_DIM * 4 =>
              ~emb_result.ok /\ emb_pc = "stopped" /\ emb_store = new_store
        /\ emb_result.ok =>
              /\ DOMAIN emb_store = Range(IdxLines)
              /\ \A k \in DOMAIN IdxLines :
                    \A e \in 1..EMBEDDING_DIM :
                        to_le_bytes(emb_store[IdxLines[k]][e]) =
                            SubSeq(bin_file.data,
                                   ((k - 1) * EMBEDDING_DIM + e) * 4 - 3,
                                   ((k - 1) * EMBEDDING_DIM + e) * 4)

\* C17: all the vectors of the store of a process have EMBEDDING_DIM elements.
C17_SameLength ==
    emb_pc # "off" => WellFormed(emb_store)

\* The store a save or a prune was writing when the process stopped.
BeingSaved ==
    IF emb_before.op = "prune"
    THEN [n \in { m \in DOMAIN emb_before.store : m \in emb_before.valid } |->
             emb_before.store[n]]
    ELSE emb_before.store

\* C18: after a process stopped inside a save of a store of EMBEDDING_DIM vectors
\* over a directory that could be loaded, a load of the directory succeeds and
\* returns the store of before the save or the store that was being saved.
C18_SaveAtomic ==
    ( /\ emb_pc = "stopped"
      /\ emb_result.op = "interrupted"
      /\ load(emb_before.idx, emb_before.bin).ok
      /\ WellFormed(BeingSaved) ) =>
        /\ load(idx_file, bin_file).ok
        /\ load(idx_file, bin_file).store \in
              { load(emb_before.idx, emb_before.bin).store, BeingSaved }

\* C19: a prune that returns Ok leaves a directory that loads as the entries
\* stored before whose key is valid, each with its vector, and returns the number
\* of entries it removed; when that number is 0, and when the prune fails, both
\* files are as they were.
C19_Prune ==
    emb_result.op = "prune" =>
        LET before == emb_before.store
            kept == { n \in DOMAIN before : n \in emb_before.valid }
        IN /\ emb_result.ok =>
                 /\ load(idx_file, bin_file).ok
                 /\ load(idx_file, bin_file).store = [n \in kept |-> before[n]]
                 /\ emb_result.removed = Cardinality(DOMAIN before \ kept)
                 /\ load(emb_before.idx, emb_before.bin).store = before
           /\ (~emb_result.ok \/ emb_result.removed = 0) =>
                 idx_file = emb_before.idx /\ bin_file = emb_before.bin
           /\ ~emb_result.ok => ~load(emb_before.idx, emb_before.bin).ok

\* A prune of a directory of two entries removed one and kept the other.
C19_Witness ==
    /\ emb_result.op = "prune" /\ emb_result.ok
    /\ emb_result.removed = 1
    /\ Cardinality(DOMAIN emb_before.store) = 2
    /\ \E n \in EmbNames :
          /\ idx_file.data = << n >>
          /\ load(idx_file, bin_file).store[n] = emb_before.store[n]
          /\ load(idx_file, bin_file).store[n][1] # load(idx_file, bin_file).store[n][2]

\* ------------------------------------- claims on the load of the document

\* The stored document does not match the schema of this program: a field of
\* Index is missing or the version is that of another release.
SchemaMismatch ==
    /\ index_json.exists
    /\ ~(IndexFields \subseteq index_json.fields) \/ index_json.version # CARGO_PKG_VERSION

\* C21: a command that loaded a stored document that does not match the schema
\* version of the program ended with a failure exit; it did not go on, with the
\* document as its index or with none.
C21_MismatchFatal ==
    (cmd \in { "index", "query", "search", "embed", "diff" } /\ SchemaMismatch) =>
        cmd_exit = "FAILURE"

\* ------------------------------------- claims on query trace and usages

\* The functions of the frames of the recursion, the outermost first.
PathFuncs == [k \in DOMAIN q_stack |-> q_stack[k].func]

\* No element of a sequence occurs twice.
Distinct(seq) == \A i, j \in DOMAIN seq : i # j => seq[i] # seq[j]

\* C26: query trace and query usages end, for every index, cyclic ones included,
\* and every depth, 0 included; the path being expanded holds no function twice
\* (a callee or caller on it is printed as [cycle], not expanded) and is the
\* visited set, the caller chain holds no function twice and not the target, and
\* with a depth of 1 or more no line is printed deeper than the depth and no
\* frame deeper than it handles an element.
C26_QueryTerminates ==
    /\ <>(q_pc = "done")
    /\ [](q_pc # "off" =>
            /\ Distinct(PathFuncs)
            /\ q_pc = "print" => Range(PathFuncs) = q_visited
            /\ Distinct(q_chain) /\ q_name \notin Range(q_chain)
            /\ Range(q_chain) \subseteq q_functions
            /\ \A k \in DOMAIN q_output :
                  q_output[k].kind = "cycle" => q_output[k].name \in q_functions
            /\ q_depth >= 1 =>
                  /\ \A k \in DOMAIN q_output :
                        q_output[k].kind \in { "node", "cycle", "unresolved", "external" }
                            => q_output[k].depth <= q_depth
                  /\ \A k \in DOMAIN q_stack :
                        q_stack[k].i > 1 => q_stack[k].depth <= q_depth)

\* A trace without a depth limit over a cycle of three functions has ended: the
\* target was printed as [cycle] at depth 3.
C26_Witness ==
    /\ q_pc = "done" /\ q_cmd = "trace" /\ q_depth = 0
    /\ \E k \in DOMAIN q_output :
          /\ q_output[k].kind = "cycle"
          /\ q_output[k].name = q_name
          /\ q_output[k].depth = 3

\* -------------------------------------------------- claims on the resolver

\* The functions of the index, each as << file_path, position >>.
IndexSlots == { sl \in Files \X (1..MaxFuncs) : sl[2] <= Len(index_files[sl[1]]) }

FuncAt(sl) == index_files[sl[1]][sl[2]]

\* The call sites of the index, each as << file_path, position, call number >>.
IndexCalls ==
    { c \in Files \X (1..MaxFuncs) \X (1..MaxCallSites) :
        /\ << c[1], c[2] >> \in IndexSlots
        /\ c[3] <= Len(FuncAt(<< c[1], c[2] >>).calls) }

CallAt(c) == FuncAt(<< c[1], c[2] >>).calls[c[3]]

QualifiedNames == { FuncAt(sl).qualified_name : sl \in IndexSlots }

\* C5: after build_symbol_table and resolve on one index, the target of every
\* call site is "[unresolved]" or the qualified name of a function of the index.
C5_TargetsInIndex ==
    res_pc = "resolved" =>
        \A c \in IndexCalls :
            CallAt(c).target = UNRESOLVED \/ CallAt(c).target \in QualifiedNames

\* A resolved index with one call site resolved to a function and one unresolved.
C5_Witness ==
    /\ res_pc = "resolved"
    /\ \E c \in IndexCalls : CallAt(c).target \in QualifiedNames
    /\ \E c \in IndexCalls : CallAt(c).target = UNRESOLVED

\* C6: after resolve, the caller of every call site whose target is a function v
\* is in called_by(v), and every called_by list is sorted ascending and without
\* a duplicate.
C6_CalledBy ==
    res_pc = "resolved" =>
        /\ \A c \in IndexCalls : \A sl \in IndexSlots :
              CallAt(c).target = FuncAt(sl).qualified_name =>
                  FuncAt(<< c[1], c[2] >>).qualified_name \in Range(FuncAt(sl).called_by)
        /\ \A sl \in IndexSlots :
              \A i, j \in DOMAIN FuncAt(sl).called_by :
                  i < j => /\ StrLeq(FuncAt(sl).called_by[i], FuncAt(sl).called_by[j])
                           /\ FuncAt(sl).called_by[i] # FuncAt(sl).called_by[j]

\* A function called by two different functions.
C6_Witness ==
    /\ res_pc = "resolved"
    /\ \E sl \in IndexSlots : Len(FuncAt(sl).called_by) = 2

\* The call sites whose raw text is one segment that is the simple name of two or
\* more functions of the index.
AmbiguousSimpleCalls ==
    { c \in IndexCalls :
        /\ Len(CallAt(c).raw) = 1
        /\ Cardinality({ sl \in IndexSlots : FuncAt(sl).name = CallAt(c).raw[1] }) >= 2 }

\* C7 as claimed: a call site whose raw text is a simple name that two or more
\* functions carry resolves to "[unresolved]", wherever the caller is.
C7_AmbiguousUnresolved ==
    res_pc = "resolved" =>
        \A c \in AmbiguousSimpleCalls : CallAt(c).target = UNRESOLVED

\* C7 as amended: such a call site resolves to "[unresolved]" unless the index has
\* a function named prefix.raw, prefix being the package prefix of the first
\* function of the caller's file; it then resolves to that function.
C7_AmbiguousSamePackage ==
    res_pc = "resolved" =>
        \A c \in AmbiguousSimpleCalls :
            LET first == index_files[c[1]][1].qualified_name
                local == extract_package(first) \o CallAt(c).raw
            IN CallAt(c).target = IF local \in QualifiedNames THEN local ELSE UNRESOLVED

\* Two call sites of an ambiguous simple name: one resolved to the function of
\* the caller's package, one from another package left unresolved.
C7_Witness ==
    /\ res_pc = "resolved"
    /\ \E c \in AmbiguousSimpleCalls : CallAt(c).target \in QualifiedNames
    /\ \E c \in AmbiguousSimpleCalls : CallAt(c).target = UNRESOLVED

\* The functions of the index whose simple name is the one segment of raw.
SimplyNamed(raw) == { sl \in IndexSlots : FuncAt(sl).name = raw[1] }

\* What C20 expects of a call site of one segment when prefix is the package
\* prefix in use: prefix.raw when the index has it, else the only function of
\* that simple name, else "[unresolved]".
SamePackageFirst(prefix, raw) ==
    IF prefix \o raw \in QualifiedNames THEN prefix \o raw
    ELSE IF Cardinality(SimplyNamed(raw)) = 1
         THEN FuncAt(CHOOSE sl \in SimplyNamed(raw) : TRUE).qualified_name
         ELSE UNRESOLVED

\* C20: the target of a call site whose raw text is one segment is prefix.raw
\* when the index has a function of that qualified name, prefix being the
\* package prefix of the caller's own qualified name; otherwise it is the only
\* function of that simple name, and "[unresolved]" when there is none or more
\* than one.
C20_OwnPackageFirst ==
    res_pc = "resolved" =>
        \A c \in IndexCalls :
            Len(CallAt(c).raw) = 1 =>
                CallAt(c).target =
                    SamePackageFirst(
                        extract_package(FuncAt(<< c[1], c[2] >>).qualified_name),
                        CallAt(c).raw)

\* The methods of the index whose receiver and simple name are the two segments
\* of key.
MethodsNamed(key) ==
    { sl \in IndexSlots :
        FuncAt(sl).receiver # NoReceiver
        /\ << FuncAt(sl).receiver, FuncAt(sl).name >> = key }

\* The only method of that receiver and name, "[unresolved]" when there is none
\* or more than one.
OnlyMethod(key) ==
    IF Cardinality(MethodsNamed(key)) = 1
    THEN FuncAt(CHOOSE sl \in MethodsNamed(key) : TRUE).qualified_name
    ELSE UNRESOLVED

\* The package prefix the resolver uses for the call sites of a file.
PrefixOfFile(path) == extract_package(index_files[path][1].qualified_name)

\* C22: the target of a call site of two segments is the two-segment text when
\* the index has a function of that qualified name, else prefix.first.second when
\* the index has it, else the only method entered under first.second; the target
\* of a call site of three or more segments is the only method entered under its
\* last two segments; in every other case it is "[unresolved]".
C22_QualifiedCalls ==
    res_pc = "resolved" =>
        \A c \in IndexCalls :
            LET raw == CallAt(c).raw
                n == Len(raw)
            IN n >= 2 =>
                 CallAt(c).target =
                    IF n = 2
                    THEN IF raw \in QualifiedNames THEN raw
                         ELSE IF PrefixOfFile(c[1]) \o raw \in QualifiedNames
                              THEN PrefixOfFile(c[1]) \o raw
                              ELSE OnlyMethod(raw)
                    ELSE OnlyMethod(<< raw[n - 1], raw[n] >>)

\* A resolved index with a call site of two segments found as a qualified name,
\* and one of three segments resolved through its last two.
C22_Witness ==
    /\ res_pc = "resolved"
    /\ \E c \in IndexCalls :
          /\ Len(CallAt(c).raw) = 2
          /\ CallAt(c).target = CallAt(c).raw
    /\ \E c \in IndexCalls :
          /\ Len(CallAt(c).raw) = 3
          /\ CallAt(c).target \in QualifiedNames
          /\ CallAt(c).target # CallAt(c).raw

\* The qualified names of the functions that have a call site whose target is v.
CallersOf(v) ==
    { FuncAt(<< c[1], c[2] >>).qualified_name :
        c \in { cs \in IndexCalls : CallAt(cs).target = v } }

\* C30: after resolve on a freshly parsed index, the called_by of every function
\* holds the qualified names of the functions with a call site whose target is
\* that function and no other name; it is empty for a function that is the
\* target of no call site.
C30_CalledByExact ==
    res_pc = "resolved" =>
        \A sl \in IndexSlots :
            /\ Range(FuncAt(sl).called_by) = CallersOf(FuncAt(sl).qualified_name)
            /\ CallersOf(FuncAt(sl).qualified_name) = {} => FuncAt(sl).called_by = << >>

\* A resolved index with a function called from one function and not from
\* another that has a resolved call of its own, and a function nobody calls.
C30_Witness ==
    /\ res_pc = "resolved"
    /\ \E sl \in IndexSlots : FuncAt(sl).called_by = << >>
    /\ \E sl, other \in IndexSlots :
          /\ Len(FuncAt(sl).called_by) = 1
          /\ FuncAt(other).qualified_name \notin Range(FuncAt(sl).called_by)
          /\ \E k \in DOMAIN FuncAt(other).calls :
                FuncAt(other).calls[k].target \in QualifiedNames

\* ------------------------------------------------- claims on the topology

RECURSIVE ReachFrom(_, _, _)
\* The functions of fs reached from S through call edges between functions of fs.
ReachFrom(S, fs, cs) ==
    LET nxt == S \cup { v \in fs : \E u \in S : v \in cs[u] }
    IN IF nxt = S THEN S ELSE ReachFrom(nxt, fs, cs)

\* u and v are functions of the set and each reaches the other inside it.
MutuallyReachable(u, v) ==
    /\ u \in functions /\ v \in functions
    /\ v \in ReachFrom({u}, functions, calls)
    /\ u \in ReachFrom({v}, functions, calls)

\* The call edges between functions of the set that leave a component.
CrossEdges ==
    { e \in functions \X functions :
        e[2] \in calls[e[1]] /\ ~MutuallyReachable(e[1], e[2]) }

\* C1: in the map assign_levels returns, every call edge u -> v between two
\* functions of the set that lie in different strongly connected components has
\* level(u) > level(v).
C1_EdgesDescend ==
    topo_pc # "start" =>
        \A e \in CrossEdges :
            /\ e[1] \in DOMAIN levels /\ e[2] \in DOMAIN levels
            /\ levels[e[1]] > levels[e[2]]

\* A chain u -> v -> w over three components has been levelled 2, 1, 0.
C1_Witness ==
    /\ topo_pc = "levels"
    /\ \E u, v, w \in functions :
          /\ << u, v >> \in CrossEdges /\ << v, w >> \in CrossEdges
          /\ levels[u] = 2 /\ levels[v] = 1 /\ levels[w] = 0

\* C8: all the functions of one strongly connected component get the same level,
\* and find_sccs puts two functions in the same component exactly when each
\* reaches the other through call edges inside the function set.
C8_SccsAreComponents ==
    topo_pc # "start" =>
        \A u, v \in functions :
            /\ func_to_scc(sccs, u) # 0
            /\ (func_to_scc(sccs, u) = func_to_scc(sccs, v)) <=> MutuallyReachable(u, v)
            /\ MutuallyReachable(u, v) =>
                  /\ u \in DOMAIN levels /\ v \in DOMAIN levels
                  /\ levels[u] = levels[v]

\* A cycle of two functions that calls a third one: the cycle is one component
\* at level 1 over the callee at level 0.
C8_Witness ==
    /\ topo_pc = "levels"
    /\ \E u, v, w \in functions :
          /\ u # v /\ MutuallyReachable(u, v) /\ << v, w >> \in CrossEdges
          /\ func_to_scc(sccs, u) = func_to_scc(sccs, v)
          /\ levels[u] = 1 /\ levels[v] = 1 /\ levels[w] = 0

\* The strongly connected component of f inside the function set.
Component(f) == { u \in functions : MutuallyReachable(f, u) }

\* The levels of the components that the component of f calls.
CalleeLevels(f) ==
    LET comp == Component(f)
    IN { levels[x] : x \in { y \in functions \ comp : \E u \in comp : y \in calls[u] } }

\* C9: every function of the set gets a level: 0 when its component has no call
\* edge to another component, otherwise 1 + the largest level of the components
\* it calls.
C9_LevelIsDepth ==
    topo_pc # "start" =>
        /\ DOMAIN levels = functions
        /\ \A f \in functions :
              levels[f] = IF CalleeLevels(f) = {} THEN 0
                          ELSE 1 + MaxOf(CalleeLevels(f))

\* A function that calls components of two different levels, the lower one a
\* function without callees at level 0.
C9_Witness ==
    /\ topo_pc = "levels"
    /\ \E f \in functions : Cardinality(CalleeLevels(f)) = 2 /\ levels[f] = 2
    /\ \E f \in functions : calls[f] = {} /\ levels[f] = 0

\* C10: the level map and the groups do not depend on the order in which the
\* hash sets and hash maps were iterated: they are those of the sorted order, each
\* group is sorted, and group i holds exactly the functions of level i.
C10_Deterministic ==
    /\ topo_pc # "start" => levels = assign_levels(functions, calls, IdentityOrder)
    /\ topo_pc = "done" =>
          /\ groups = group_by_level(levels, IdentityOrder)
          /\ \A g \in DOMAIN groups :
                /\ \A i, j \in DOMAIN groups[g] : i < j => groups[g][i] < groups[g][j]
                /\ Range(groups[g]) = { f \in DOMAIN levels : levels[f] = g - 1 }

\* The groups of a level map that has two functions on one level and a caller
\* above them.
C10_Witness ==
    /\ topo_pc = "done"
    /\ Len(groups) >= 2
    /\ \E g \in DOMAIN groups : Len(groups[g]) >= 2

====
